---------------------------- MODULE Spec2Model ----------------------------
(***************************************************************************)
(* Conversation engine of the Copperx Telegram bot.                        *)
(*                                                                         *)
(* Spec      : the send / wallet-withdrawal / bank-withdrawal flows of     *)
(*             commands/transfer.ts (src/unnamed/part_000), driven by the  *)
(*             two shared event sources of the bot ('message' and          *)
(*             'callback_query').                                          *)
(*             One chat, its session coming and going.                     *)
(* SpecCross : the same conversations for two logged-in chats.             *)
(* SpecLogin : the one-shot text listeners of the /login flow              *)
(*             (src/src/commands/auth.ts), for two chats, up to the        *)
(*             registration of the code listener.                          *)
(* SpecLoginSolo : the whole /login flow of one chat, from the command to  *)
(*             the welcome message, with its timers.                       *)
(* SpecWithdraw : the withdrawals of one logged-in chat next to a send     *)
(*             conversation, with room for two wallet withdrawals.         *)
(* SpecNotify : the logins and the logouts of one chat with the steps of   *)
(*             the notification service (src/src/services/notification.ts) *)
(*             between them.                                               *)
(* SpecRelogin : the logins of one chat, one after the other, for one or   *)
(*             another organization, its session expiring between them.    *)
(* SpecOtp   : the logins of two chats with one email, up to the answer of *)
(*             the authenticate request.                                   *)
(* SpecStore : the Redis session store (src/src/middleware/index.ts) under *)
(*             its own operations.                                         *)
(* SpecRefresh : refreshToken of one user, under the answers of the remote *)
(*             service and of Redis.                                       *)
(* SpecAuthenticate : authenticateWithOTP under the answers of the remote  *)
(*             service.                                                    *)
(* SpecDefaultWallet : /setdefaultwallet of one chat and the buttons of    *)
(*             its keyboard.                                               *)
(*                                                                         *)
(* Texts are sequences of one-character strings, so that trimming, the     *)
(* amount pattern, parseFloat and Number.toString are computed and not     *)
(* assumed.  A handler runs atomically up to its first await; every await  *)
(* of a handler is a separate step of a pending call.  What a handler      *)
(* sends (chat messages, gateway calls) is not kept in the state: each     *)
(* handler is an operator that yields the next state together with the     *)
(* effects of the step, and the properties read the effects there.         *)
(***************************************************************************)
EXTENDS Integers, Sequences, FiniteSets, Bags, TLC

VARIABLES
  session,    \* chat -> token of its ChatSession, or NoSession (Redis)
  flows,      \* one record per started conversation (closure of start*Conversation)
  calls,      \* bag of the confirm handlers suspended at an await
  menus,      \* the chats the withdrawal menu was sent to
  listeners,  \* bot._textRegexpCallbacks entries registered with /.*/ (login)
  timers,     \* pending setTimeout callbacks of the login flow, oldest first
  logins,     \* /login handlers and login listeners suspended at an await
  emailOtpSessions,  \* the Map email -> sid of the auth service, as its entries
  organizationId,    \* chat -> organizationId of its ChatSession, "" if none
  pusherInstances,   \* the keys of the pusherInstances map (notification service)
  pusherClients,     \* the Pusher clients that are connected
  redis,             \* the user_session:<id> keys of Redis, with value and time-to-live
  authCall,          \* the last authenticateWithOTP or refreshToken call: its answer and what it made of it
  defaultWalletStates,  \* the chats whose DefaultWalletState awaits a selection
  callbackHandlers,     \* chat -> the 'callback_query' handlers /setdefaultwallet registered
  selections            \* bag of /setdefaultwallet handlers and of runs of their button handlers

vars == <<session, flows, calls, menus, listeners, timers, logins,
          emailOtpSessions, organizationId, pusherInstances, pusherClients, redis, authCall,
          defaultWalletStates, callbackHandlers, selections>>

-----------------------------------------------------------------------------
(* Bounds of the model *)

MaxFlows == 2       \* conversations started in one run
MaxPending == 2     \* confirm handlers suspended at the same time
MaxWithdrawFlows == 3  \* conversations started in one run of SpecWithdraw

Chats == {1, 2}

NoSession == "none"
Token(c) == IF c = 1 THEN "tokA" ELSE "tokB"

-----------------------------------------------------------------------------
(* Texts *)

Digits == <<"0", "1", "2", "3", "4", "5", "6", "7", "8", "9">>

IsDigit(ch) == \E i \in 1..10 : Digits[i] = ch

DigitVal(ch) == (CHOOSE i \in 1..10 : Digits[i] = ch) - 1

IsSpace(ch) == ch = " "

\* JS undefined where a text is expected; no text equals it, since texts are
\* sequences of single characters.
Undefined == <<"undefined">>

T_email == <<"a", "@", "b", ".", "c", "o", "m">>
T_amount == <<"1", "0", ".", "5">>
T_amountPadded == <<" ", "1", "0", ".", "5", "0">>
T_zero == <<"0">>
T_skip == <<"S", "k", "i", "p">>
T_send == <<"/", "s", "e", "n", "d">>
T_withdraw == <<"/", "w", "i", "t", "h", "d", "r", "a", "w">>
T_address == [i \in 1..32 |-> "x"]

\* msg.text of the inbound messages; Undefined is a message without text
Texts == {T_email, T_amount, T_skip, T_address, T_send, T_withdraw}

RECURSIVE TrimLeft(_)
TrimLeft(t) == IF t # <<>> /\ IsSpace(Head(t)) THEN TrimLeft(Tail(t)) ELSE t

RECURSIVE TrimRight(_)
TrimRight(t) ==
  IF t # <<>> /\ IsSpace(t[Len(t)]) THEN TrimRight(SubSeq(t, 1, Len(t) - 1)) ELSE t

\* msg.text?.trim()
Trim(t) == IF t = Undefined THEN Undefined ELSE TrimRight(TrimLeft(t))

\* String.prototype.includes / an unanchored literal pattern
Contains(t, pat) ==
  /\ t # Undefined
  /\ \E i \in 1..(Len(t) - Len(pat) + 1) : SubSeq(t, i, i + Len(pat) - 1) = pat

Lower(ch) ==
  CASE ch = "S" -> "s" [] ch = "K" -> "k" [] ch = "I" -> "i" [] ch = "P" -> "p"
    [] OTHER -> ch

ToLowerCase(t) == [i \in 1..Len(t) |-> Lower(t[i])]

\* !x for a string that may be undefined
Falsy(t) == t = Undefined \/ t = <<>>


-----------------------------------------------------------------------------
(* Amounts: AMOUNT_REGEX, parseFloat, Number.prototype.toString *)

MaxFractionDigits == 6

RECURSIVE Pow10(_)
Pow10(n) == IF n = 0 THEN 1 ELSE 10 * Pow10(n - 1)

AllDigits(t) == \A i \in 1..Len(t) : IsDigit(t[i])

\* /^\d+(\.\d{1,6})?$/.test(t)
AmountRegexTest(t) ==
  /\ t # Undefined
  /\ \E k \in 1..Len(t) :
       /\ AllDigits(SubSeq(t, 1, k))
       /\ \/ k = Len(t)
          \/ /\ k < Len(t)
             /\ t[k + 1] = "."
             /\ Len(t) - (k + 1) \in 1..MaxFractionDigits
             /\ AllDigits(SubSeq(t, k + 2, Len(t)))

RECURSIVE NatOf(_)
NatOf(ds) ==
  IF ds = <<>> THEN 0
  ELSE 10 * NatOf(SubSeq(ds, 1, Len(ds) - 1)) + DigitVal(ds[Len(ds)])

DotAt(t) == IF \E i \in 1..Len(t) : t[i] = "."
            THEN CHOOSE i \in 1..Len(t) : t[i] = "."
            ELSE Len(t) + 1

\* parseFloat of a text that passed AMOUNT_REGEX; a number is held as its
\* value times 10^6, which is exact for at most six fraction digits.
ParseFloat(t) ==
  LET d == DotAt(t)
      ip == SubSeq(t, 1, d - 1)
      fp == SubSeq(t, d + 1, Len(t))
  IN NatOf(ip) * Pow10(MaxFractionDigits)
       + NatOf(fp) * Pow10(MaxFractionDigits - Len(fp))

RECURSIVE NatStr(_)
NatStr(n) == IF n < 10 THEN <<Digits[n + 1]>>
             ELSE NatStr(n \div 10) \o <<Digits[(n % 10) + 1]>>

RECURSIVE StripZeros(_)
StripZeros(ds) ==
  IF ds # <<>> /\ ds[Len(ds)] = "0" THEN StripZeros(SubSeq(ds, 1, Len(ds) - 1))
  ELSE ds

PadLeft(ds, n) == [i \in 1..(n - Len(ds)) |-> "0"] \o ds

\* amount.toString(): shortest decimal text of the number
NumToString(n) ==
  LET ip == n \div Pow10(MaxFractionDigits)
      fp == n % Pow10(MaxFractionDigits)
  IN IF fp = 0 THEN NatStr(ip)
     ELSE NatStr(ip) \o <<".">> \o StripZeros(PadLeft(NatStr(fp), MaxFractionDigits))

-----------------------------------------------------------------------------
(* Drafts: the object stored under userStates[chatId] of one conversation.  *)
(* A draft is a record holding exactly the properties the object has.       *)

NoDraft == [k \in {} |-> Undefined]

Has(d, k) == k \in DOMAIN d

SetField(d, k, v) == [x \in DOMAIN d \cup {k} |-> IF x = k THEN v ELSE d[x]]

\* a step's effect: a chat message, a gateway call, a gateway result or an
\* exception that leaves the handler
Effect(c, i, kind, id, detail, args) ==
  [to |-> c, flow |-> i, kind |-> kind, id |-> id, detail |-> detail, args |-> args]

Msg(c, i, id) == Effect(c, i, "msg", id, "", <<>>)

Throw(c, i, id) == Effect(c, i, "throw", id, "", <<>>)

\* A conversation as start*Conversation leaves it.  listener: the 'message'
\* listener it has registered; cb: its callback_query handler is registered;
\* obj: the draft object, which a suspended handler still holds as userData
\* after `delete userStates[chatId]`; present: userStates[chatId] is set;
\* submitted: the success branch of its confirm handler has run.
NewFlow(kind, c) ==
  [kind |-> kind, chat |-> c,
   listener |-> CASE kind = "send" -> "email"
                  [] kind = "wallet" -> "address"
                  [] OTHER -> "amount",
   cb |-> kind = "send",
   obj |-> NoDraft, present |-> FALSE, submitted |-> FALSE]

\* The conversation state of the data model, read off the handler that is
\* registered and the draft.
FlowState(f) ==
  CASE f.listener = "email" -> "AwaitingRecipient"
    [] f.listener = "address" -> "AwaitingWalletAddress"
    [] f.listener = "amount" -> "AwaitingAmount"
    [] f.listener = "description" -> "AwaitingDescription"
    [] OTHER ->
         IF ~f.present THEN "Idle"
         ELSE IF f.kind = "wallet" /\ ~Has(f.obj, "network") THEN "AwaitingNetwork"
         ELSE "AwaitingConfirmation"

-----------------------------------------------------------------------------
(* 'message' listeners of the conversations.  Each yields the conversation  *)
(* after the listener ran and what the listener sent.                       *)

Res(f, effects) == [f |-> f, out |-> effects]

\* a listener without the chat filter
ForAnyChat(f, c) == TRUE

\* if (msg.chat.id !== chatId) return;
ForChat(f, c) == f.chat = c

\* the two rejections every amount listener makes before it stores anything
AmountVerdict(t) ==
  LET amountText == Trim(t)
  IN IF Falsy(amountText) \/ ~AmountRegexTest(amountText) THEN "invalid"
     ELSE IF ParseFloat(amountText) <= 0 THEN "notPositive"
     ELSE "ok"

\* an emailListener that stores whatever text it is given
EmailListenerUnchecked(f, i, t) ==
  Res([f EXCEPT !.obj = [recipient |-> Trim(t)], !.present = TRUE,
                !.listener = "amount"],
      <<Msg(f.chat, i, "askAmount")>>)

\* startSendConversation: emailListener
EmailListener(f, i, t) ==
  LET email == Trim(t)
  IN IF Falsy(email) \/ ~Contains(email, <<"@">>)
     THEN Res(f, <<Msg(f.chat, i, "invalidEmail")>>)
     ELSE Res([f EXCEPT !.obj = [recipient |-> email], !.present = TRUE,
                        !.listener = "amount"],
              <<Msg(f.chat, i, "askAmount")>>)

\* an amountListener that registers no description listener
SendAmountListenerSkipping(f, i, t) ==
  Res([f EXCEPT !.obj = SetField(@, "amount", 0), !.listener = "none"], <<>>)

\* startSendConversation: amountListener
SendAmountListener(f, i, t) ==
  CASE AmountVerdict(t) = "invalid" -> Res(f, <<Msg(f.chat, i, "invalidAmount")>>)
    [] AmountVerdict(t) = "notPositive" ->
         Res(f, <<Msg(f.chat, i, "amountNotPositive")>>)
    [] OTHER ->
         IF ~f.present
         THEN Res(f, <<Throw(f.chat, i, "TypeError")>>)
         ELSE Res([f EXCEPT !.obj = SetField(@, "amount", ParseFloat(Trim(t))),
                            !.listener = "description"],
                  <<Msg(f.chat, i, "askDescription")>>)

\* a description that is stored as it was typed
DescriptionKept(t) == Trim(t)

\* description?.toLowerCase() === 'skip' ? '' : description
Description(t) ==
  LET description == Trim(t)
  IN IF description # Undefined /\ ToLowerCase(description) = <<"s", "k", "i", "p">>
     THEN <<>>
     ELSE description

\* the transfer confirmation that descriptionListener sends: recipient,
\* amount, and the description line when the description is truthy
SendSummary(f, i, d) ==
  Effect(f.chat, i, "msg", "sendSummary", "",
         <<d.recipient, NumToString(d.amount)>>
           \o (IF Falsy(d.description) THEN <<>> ELSE <<d.description>>))

\* startSendConversation: descriptionListener
DescriptionListener(f, i, t) ==
  IF ~f.present
  THEN Res(f, <<Throw(f.chat, i, "TypeError")>>)
  ELSE LET d == SetField(f.obj, "description", Description(t))
       IN Res([f EXCEPT !.obj = d, !.listener = "none"], <<SendSummary(f, i, d)>>)

MinAddressLength == 32

\* startWalletWithdrawConversation: addressListener
AddressListener(f, i, t) ==
  LET address == Trim(t)
  IN IF Falsy(address) \/ Len(address) < MinAddressLength
     THEN Res(f, <<Msg(f.chat, i, "invalidAddress")>>)
     ELSE Res([f EXCEPT !.obj = [address |-> address], !.present = TRUE,
                        !.listener = "amount"],
              <<Msg(f.chat, i, "askAmount")>>)

\* startWalletWithdrawConversation: amountListener; it registers the
\* conversation's callback_query handler
WalletAmountListener(f, i, t) ==
  CASE AmountVerdict(t) = "invalid" -> Res(f, <<Msg(f.chat, i, "invalidAmount")>>)
    [] AmountVerdict(t) = "notPositive" ->
         Res(f, <<Msg(f.chat, i, "amountNotPositive")>>)
    [] OTHER ->
         IF ~f.present
         THEN Res(f, <<Throw(f.chat, i, "TypeError")>>)
         ELSE Res([f EXCEPT !.obj = SetField(@, "amount", ParseFloat(Trim(t))),
                            !.listener = "none", !.cb = TRUE],
                  <<Msg(f.chat, i, "askNetwork")>>)

\* startBankWithdrawConversation: amountListener; it registers the
\* conversation's callback_query handler
BankAmountListener(f, i, t) ==
  CASE AmountVerdict(t) = "invalid" -> Res(f, <<Msg(f.chat, i, "invalidAmount")>>)
    [] AmountVerdict(t) = "notPositive" ->
         Res(f, <<Msg(f.chat, i, "amountNotPositive")>>)
    [] OTHER ->
         LET amount == ParseFloat(Trim(t))
         IN Res([f EXCEPT !.obj = [amount |-> amount], !.present = TRUE,
                          !.listener = "none", !.cb = TRUE],
                <<Effect(f.chat, i, "msg", "bankSummary", "", <<NumToString(amount)>>)>>)

\* what the 'message' event does to conversation i: its registered listener
\* runs, if it has one and the message is of its chat
OnMessage(f, i, c, t) ==
  IF f.listener = "none" \/ ~ForChat(f, c) THEN Res(f, <<>>)
  ELSE CASE f.listener = "email" -> EmailListener(f, i, t)
         [] f.listener = "description" -> DescriptionListener(f, i, t)
         [] f.listener = "address" -> AddressListener(f, i, t)
         [] f.listener = "amount" /\ f.kind = "send" -> SendAmountListener(f, i, t)
         [] f.listener = "amount" /\ f.kind = "wallet" -> WalletAmountListener(f, i, t)
         [] OTHER -> BankAmountListener(f, i, t)

-----------------------------------------------------------------------------
(* 'callback_query' handlers of the conversations, up to their first await  *)

Buttons == {"confirm_send", "cancel_send", "withdraw_wallet", "withdraw_bank",
            "network_solana", "network_ethereum", "confirm_wallet_withdraw",
            "confirm_bank_withdraw", "cancel_withdraw"}

\* data.startsWith('network_')
IsNetworkButton(data) == data \in {"network_solana", "network_ethereum"}

\* data.replace('network_', '')
NetworkOf(data) == IF data = "network_solana" THEN "solana" ELSE "ethereum"

CbRes(f, effects, newCalls, starts) ==
  [f |-> f, out |-> effects, calls |-> newCalls, start |-> starts]

\* a confirm handler suspended at `await getUserToken(chatId)`
NewCall(f, i) == [flow |-> i, pc |-> "token", token |-> NoSession]

\* a confirm branch without the userData check
NeverMissing(f) == FALSE

\* const userData = userStates[chatId]; if (!userData) ...
DraftMissing(f) == ~f.present

\* the confirm branch of the three handlers, up to the token lookup
ConfirmPressed(f, i) ==
  IF DraftMissing(f)
  THEN CbRes(f, <<Msg(f.chat, i, "dataNotFound")>>, <<>>, <<>>)
  ELSE CbRes(f, <<>>, <<NewCall(f, i)>>, <<>>)

\* the cancel branch: delete userStates[chatId]
CancelPressed(f, i) ==
  CbRes([f EXCEPT !.present = FALSE], <<Msg(f.chat, i, "canceled")>>, <<>>, <<>>)

\* startSendConversation: bot.on('callback_query', ...)
SendCallback(f, i, data) ==
  CASE data = "confirm_send" -> ConfirmPressed(f, i)
    [] data = "cancel_send" -> CancelPressed(f, i)
    [] data = "withdraw_wallet" -> CbRes(f, <<>>, <<>>, <<"wallet">>)
    [] data = "withdraw_bank" -> CbRes(f, <<>>, <<>>, <<"bank">>)
    [] OTHER -> CbRes(f, <<>>, <<>>, <<>>)

\* the wallet-withdrawal confirmation sent after a network button
WalletSummary(f, i, d) ==
  Effect(f.chat, i, "msg", "walletSummary", d.network,
         <<d.address, NumToString(d.amount)>>)

\* startWalletWithdrawConversation: bot.on('callback_query', ...)
WalletCallback(f, i, data) ==
  CASE IsNetworkButton(data) ->
         IF ~f.present
         THEN CbRes(f, <<Throw(f.chat, i, "TypeError")>>, <<>>, <<>>)
         ELSE LET d == SetField(f.obj, "network", NetworkOf(data))
              IN CbRes([f EXCEPT !.obj = d], <<WalletSummary(f, i, d)>>, <<>>, <<>>)
    [] data = "confirm_wallet_withdraw" -> ConfirmPressed(f, i)
    [] data = "cancel_withdraw" -> CancelPressed(f, i)
    [] OTHER -> CbRes(f, <<>>, <<>>, <<>>)

\* startBankWithdrawConversation: bot.on('callback_query', ...)
BankCallback(f, i, data) ==
  CASE data = "confirm_bank_withdraw" -> ConfirmPressed(f, i)
    [] data = "cancel_withdraw" -> CancelPressed(f, i)
    [] OTHER -> CbRes(f, <<>>, <<>>, <<>>)

\* if (!callbackQuery.message || callbackQuery.message.chat.id !== chatId) return;
CallbackForChat(f, c) == f.chat = c

\* what the 'callback_query' event does to conversation i
OnCallback(f, i, c, data) ==
  IF ~f.cb \/ ~CallbackForChat(f, c) THEN CbRes(f, <<>>, <<>>, <<>>)
  ELSE CASE f.kind = "send" -> SendCallback(f, i, data)
         [] f.kind = "wallet" -> WalletCallback(f, i, data)
         [] OTHER -> BankCallback(f, i, data)

\* the concatenation of a sequence of sequences
RECURSIVE Flatten(_)
Flatten(ss) == IF ss = <<>> THEN <<>> ELSE Head(ss) \o Flatten(Tail(ss))

\* The inline buttons the bot has sent to chat c.  Conversations are never
\* dropped and a listener that was removed is never registered again, so the
\* keyboards a chat has received can be read off its conversations.
ShownTo(c) ==
  LET mine(kind) == {i \in DOMAIN flows : flows[i].chat = c /\ flows[i].kind = kind}
  IN (IF c \in menus THEN {"withdraw_bank", "withdraw_wallet"} ELSE {})
     \cup (IF \E i \in mine("send") : flows[i].listener = "none"
           THEN {"confirm_send", "cancel_send"} ELSE {})
     \cup (IF \E i \in mine("wallet") : flows[i].listener = "none"
           THEN {"network_solana", "network_ethereum"} ELSE {})
     \cup (IF \E i \in mine("wallet") : Has(flows[i].obj, "network")
           THEN {"confirm_wallet_withdraw", "cancel_withdraw"} ELSE {})
     \cup (IF \E i \in mine("bank") : flows[i].listener = "none"
           THEN {"confirm_bank_withdraw", "cancel_withdraw"} ELSE {})

-----------------------------------------------------------------------------
(* The session store (utils/redis): one key per user, holding the JSON     *)
(* text of an AuthToken and a time-to-live in seconds.  A key that is not  *)
(* there is the empty sequence.                                            *)

DefaultExpiry == 86400   \* 60 * 60 * 24

\* `${SESSION_PREFIX}${userId}`
SessionKey(userId) == <<"user_session:", userId>>

RedisKeys == {SessionKey(c) : c \in Chats}

\* the optional expiryInSeconds argument: <<>> when it is not given
ExpiryOrDefault(expiry) == IF expiry = <<>> THEN DefaultExpiry ELSE expiry[1]

\* interface AuthToken; a refreshToken that is not there is ""
AuthToken(token, refresh, expires, org) ==
  [token |-> token, refreshToken |-> refresh, expiresIn |-> expires,
   organizationId |-> org]

\* an updateSessionExpiry that writes the key whether it is there or not
UpdateSessionExpiryUpsert(store, userId, expiry, up) ==
  IF ~up THEN [store |-> store, result |-> FALSE]
  ELSE [store |-> [store EXCEPT ![SessionKey(userId)] =
                     <<[value |-> IF @ = <<>> THEN AuthToken("", "", 0, "") ELSE @[1].value,
                        ttl |-> ExpiryOrDefault(expiry)]>>],
        result |-> TRUE]

\* storeUserSession(userId, token, expiryInSeconds): SET key value EX ttl,
\* or an exception when Redis is down
StoreUserSession(store, userId, token, expiry, up) ==
  IF ~up THEN [store |-> store, thrown |-> TRUE]
  ELSE [store |-> [store EXCEPT ![SessionKey(userId)] =
                     <<[value |-> token, ttl |-> ExpiryOrDefault(expiry)]>>],
        thrown |-> FALSE]

\* updateSessionExpiry(userId, expiryInSeconds): EXPIRE key ttl, which
\* answers whether the key is there; false when Redis is down
UpdateSessionExpiry(store, userId, expiry, up) ==
  IF ~up \/ store[SessionKey(userId)] = <<>> THEN [store |-> store, result |-> FALSE]
  ELSE [store |-> [store EXCEPT ![SessionKey(userId)] =
                     <<[@[1] EXCEPT !.ttl = ExpiryOrDefault(expiry)]>>],
        result |-> TRUE]

\* deleteUserSession(userId): DEL key, or an exception when Redis is down
DeleteUserSession(store, userId, up) ==
  IF ~up THEN [store |-> store, thrown |-> TRUE]
  ELSE [store |-> [store EXCEPT ![SessionKey(userId)] = <<>>], thrown |-> FALSE]

\* getUserSession(userId): the AuthToken of the key, null (the empty
\* sequence) without the key or when Redis is down
GetUserSession(store, userId, up) ==
  IF ~up \/ store[SessionKey(userId)] = <<>> THEN <<>>
  ELSE <<store[SessionKey(userId)][1].value>>

\* a catch block of refreshToken that leaves the session where it is
RefreshFailedKept(store, c, up) == [store |-> store, thrown |-> TRUE]

\* the catch block of refreshToken: `await clearUserSession(chatId)`, then
\* an Error is thrown, by deleteUserSession or by the block
RefreshFailed(store, c, up) ==
  [store |-> DeleteUserSession(store, c, up).store, thrown |-> TRUE]

\* an answer of POST /auth/refresh: kind "ok" with the members of its data
\* ("" for no token or refreshToken, <<>> for no organizationId), "http" for
\* an error status, "network" for no answer
RefreshAnswer(kind, token, refresh, org) ==
  [kind |-> kind, token |-> token, refreshToken |-> refresh, organizationId |-> org]

\* refreshToken(chatId), with the answer of the remote service and whether
\* Redis answers the read, the write and the delete of the call
RefreshToken(store, c, answer, upGet, upStore, upDelete) ==
  LET read == GetUserSession(store, c, upGet)
      newTokens ==
        AuthToken(answer.token, answer.refreshToken, 3600,
                  IF answer.organizationId = <<>> THEN read[1].organizationId
                  ELSE answer.organizationId[1])
  IN  IF read = <<>> THEN [store |-> store, thrown |-> TRUE]
      ELSE IF read[1].refreshToken = "" \/ answer.kind # "ok" \/ answer.token = ""
      THEN RefreshFailed(store, c, upDelete)
      ELSE IF StoreUserSession(store, c, newTokens, <<>>, upStore).thrown
      THEN RefreshFailed(store, c, upDelete)
      ELSE [store |-> StoreUserSession(store, c, newTokens, <<>>, upStore).store,
            thrown |-> FALSE]

-----------------------------------------------------------------------------
(* The session store, as the conversations see it *)

\* storeUserSession at the end of a login
SessionStored(c) ==
  /\ session[c] = NoSession
  /\ session' = [session EXCEPT ![c] = Token(c)]
  /\ UNCHANGED <<flows, calls, menus, listeners, timers, logins,
                 emailOtpSessions, organizationId, pusherInstances, pusherClients, redis, authCall,
                 defaultWalletStates, callbackHandlers, selections>>

\* deleteUserSession at /logout, or the expiry of the key
SessionCleared(c) ==
  /\ session[c] # NoSession
  /\ session' = [session EXCEPT ![c] = NoSession]
  /\ organizationId' = [organizationId EXCEPT ![c] = ""]
  /\ UNCHANGED <<flows, calls, menus, listeners, timers, logins,
                 emailOtpSessions, pusherInstances, pusherClients, redis, authCall,
                 defaultWalletStates, callbackHandlers, selections>>

\* a session check that never finds a session
NeverAuthenticated(c) == FALSE

\* isAuthenticated(chatId)
IsAuthenticated(c) == session[c] # NoSession

-----------------------------------------------------------------------------
(* Inbound events *)

\* sendCommand and withdrawCommand, registered with /\/send/ and /\/withdraw/:
\* the conversations they start and what they send
CommandResult(c, t) ==
  LET isSend == Contains(t, T_send)
      isWithdraw == Contains(t, T_withdraw)
      n == Len(flows)
  IN [start |-> IF isSend /\ IsAuthenticated(c) THEN <<"send">> ELSE <<>>,
      out |-> (IF ~isSend THEN <<>>
               ELSE IF IsAuthenticated(c) THEN <<Msg(c, n + 1, "askRecipient")>>
               ELSE <<Msg(c, 0, "loginFirst")>>)
              \o (IF ~isWithdraw THEN <<>>
                  ELSE IF IsAuthenticated(c) THEN <<Msg(c, 0, "withdrawOptions")>>
                  ELSE <<Msg(c, 0, "loginFirst")>>)]

StartMsg(kind) == IF kind = "wallet" THEN "askAddress" ELSE "askAmountBank"

\* A message of chat c with text t: every registered 'message' listener runs,
\* then the command handlers whose pattern matches the text.
MessageResult(c, t) ==
  LET rs == [i \in DOMAIN flows |-> OnMessage(flows[i], i, c, t)]
      cmd == CommandResult(c, t)
  IN [flows |-> [i \in DOMAIN flows |-> rs[i].f]
                  \o [j \in DOMAIN cmd.start |-> NewFlow(cmd.start[j], c)],
      menus |-> IF \E j \in DOMAIN cmd.out : cmd.out[j].id = "withdrawOptions"
                THEN menus \cup {c} ELSE menus,
      out |-> Flatten([i \in DOMAIN flows |-> rs[i].out]) \o cmd.out]

Message(c, t) ==
  LET r == MessageResult(c, t)
  IN /\ Len(r.flows) <= MaxFlows
     /\ flows' = r.flows
     /\ menus' = r.menus
     /\ UNCHANGED <<session, calls, listeners, timers, logins,
                 emailOtpSessions, organizationId, pusherInstances, pusherClients, redis, authCall,
                 defaultWalletStates, callbackHandlers, selections>>

RECURSIVE BagOf(_)
BagOf(seq) == IF seq = <<>> THEN EmptyBag ELSE SetToBag({Head(seq)}) (+) BagOf(Tail(seq))

\* A press by chat c of a button: every registered 'callback_query' handler
\* runs up to its first await.
ButtonResult(c, data) ==
  LET rs == [i \in DOMAIN flows |-> OnCallback(flows[i], i, c, data)]
      starts == Flatten([i \in DOMAIN flows |-> rs[i].start])
      n == Len(flows)
  IN [flows |-> [i \in DOMAIN flows |-> rs[i].f]
                  \o [j \in DOMAIN starts |-> NewFlow(starts[j], c)],
      calls |-> Flatten([i \in DOMAIN flows |-> rs[i].calls]),
      out |-> Flatten([i \in DOMAIN flows |-> rs[i].out])
                \o [j \in DOMAIN starts |-> Msg(c, n + j, StartMsg(starts[j]))]]

\* a chat can press the buttons the bot has sent to it
Button(c, data) ==
  LET r == ButtonResult(c, data)
  IN /\ data \in ShownTo(c)
     /\ Len(r.flows) <= MaxFlows
     /\ BagCardinality(calls) + Len(r.calls) <= MaxPending
     /\ flows' = r.flows
     /\ calls' = calls (+) BagOf(r.calls)
     /\ UNCHANGED <<session, menus, listeners, timers, logins,
                 emailOtpSessions, organizationId, pusherInstances, pusherClients, redis, authCall,
                 defaultWalletStates, callbackHandlers, selections>>

-----------------------------------------------------------------------------
(* The gateway operations sendFunds, withdrawToWallet, withdrawToBank *)

\* how the remote call ends: accepted; refused with a message in the body;
\* failed without a response; failed with neither message
ApiOutcomes == {"ok", "bodyMessage", "transportError", "noMessage"}

Operation(kind) ==
  CASE kind = "send" -> "sendFunds"
    [] kind = "wallet" -> "withdrawToWallet"
    [] OTHER -> "withdrawToBank"

DefaultPhrase(kind) ==
  CASE kind = "send" -> "Failed to send funds"
    [] kind = "wallet" -> "Failed to withdraw funds"
    [] OTHER -> "Failed to withdraw funds to bank"

\* error.response?.data?.message || error.message || <default phrase>
GatewayError(kind, outcome) ==
  CASE outcome = "bodyMessage" -> "Insufficient balance"
    [] outcome = "transportError" -> "Network Error"
    [] OTHER -> DefaultPhrase(kind)

\* the result object the operation returns
GatewayResult(kind, outcome) ==
  IF outcome = "ok"
  THEN [success |-> TRUE, data |-> [id |-> "tx"]]
  ELSE [success |-> FALSE, data |-> [error |-> GatewayError(kind, outcome)]]

\* result.data?.message || 'Unknown error'
FailureText(result) ==
  IF Has(result.data, "message") THEN result.data.message ELSE "Unknown error"

-----------------------------------------------------------------------------
(* The confirm handlers after their awaits.  Each step yields the handler   *)
(* as it continues (cont, empty when it returned), the conversation and     *)
(* the effects.                                                             *)

StepRes(cont, f, effects) == [cont |-> cont, f |-> f, out |-> effects]

Field(d, k) == IF Has(d, k) THEN d[k] ELSE Undefined

\* userData.amount.toString() throws when the draft has no amount
CanSubmit(f) == Has(f.obj, "amount")

\* the arguments of the submission call, read from userData when the call is
\* made
SubmitArgs(f) ==
  CASE f.kind = "send" ->
         <<f.obj.recipient, NumToString(f.obj.amount),
           IF Falsy(Field(f.obj, "description")) THEN <<>> ELSE f.obj.description>>
    [] f.kind = "wallet" ->
         <<f.obj.address, NumToString(f.obj.amount),
           IF Has(f.obj, "network") THEN f.obj.network ELSE "undefined">>
    [] OTHER -> <<NumToString(f.obj.amount), <<>>>>

\* "Processing ..." and the call of the gateway operation, or the TypeError
\* caught by the handler's catch
Submit(call, token) ==
  LET i == call.flow
      f == flows[i]
  IN IF ~CanSubmit(f)
     THEN StepRes(<<>>, f, <<Msg(f.chat, i, "processing"),
                             Msg(f.chat, i, "somethingWentWrong")>>)
     ELSE StepRes(<<[call EXCEPT !.pc = "result", !.token = token]>>, f,
                  <<Msg(f.chat, i, "processing"),
                    Effect(f.chat, i, "api", Operation(f.kind), "", SubmitArgs(f))>>)

\* getUserToken(chatId) returned
TokenResult(call) ==
  LET i == call.flow
      f == flows[i]
  IN IF session[f.chat] = NoSession
     THEN StepRes(<<>>, f, <<Msg(f.chat, i, "authError")>>)
     ELSE IF f.kind = "send"
     THEN StepRes(<<[call EXCEPT !.pc = "wallet", !.token = session[f.chat]]>>, f, <<>>)
     ELSE Submit(call, session[f.chat])

\* how GET /wallets/default ends: a wallet, an empty body, an error
WalletOutcomes == {"wallet", "empty", "error"}

\* a confirm handler that does not look at what getDefaultWallet returned
WalletResultUnchecked(call, outcome) == Submit(call, call.token)

\* getDefaultWallet(chatId) returned or threw (send flow only)
WalletResult(call, outcome) ==
  LET i == call.flow
      f == flows[i]
  IN IF session[f.chat] = NoSession
     THEN StepRes(<<>>, f, <<Effect(f.chat, i, "msg", "noDefaultWallet",
                                    "User not authenticated", <<>>)>>)
     ELSE IF outcome = "empty"
     THEN StepRes(<<>>, f, <<Effect(f.chat, i, "msg", "noDefaultWallet",
                                    "Unknown error", <<>>)>>)
     ELSE IF outcome = "error"
     THEN StepRes(<<>>, f, <<Effect(f.chat, i, "msg", "noDefaultWallet",
                                    "Request failed", <<>>)>>)
     ELSE Submit(call, call.token)

\* delete userStates[chatId] after a successful submission
DiscardOnSuccess(f) == [f EXCEPT !.present = FALSE, !.submitted = TRUE]

\* the else branch of the result handling: the draft is left as it is
KeepOnFailure(f) == f

\* the gateway operation returned; the success message reads userData again
ResultResult(call, outcome) ==
  LET i == call.flow
      f == flows[i]
      result == GatewayResult(f.kind, outcome)
  IN IF result.success /\ Has(result.data, "id")
     THEN StepRes(<<>>, DiscardOnSuccess(f),
                  <<Effect(f.chat, i, "msg", "success", result.data.id, SubmitArgs(f))>>)
     ELSE StepRes(<<>>, KeepOnFailure(f),
                  <<Effect(f.chat, i, "result", Operation(f.kind), result.data.error, <<>>),
                    Effect(f.chat, i, "msg", "failed", FailureText(result), <<>>)>>)

\* the pending call moves on as the step says
Continue(call, r) ==
  /\ calls' = (calls (-) SetToBag({call})) (+) BagOf(r.cont)
  /\ flows' = [flows EXCEPT ![call.flow] = r.f]
  /\ UNCHANGED <<session, menus, listeners, timers, logins,
                 emailOtpSessions, organizationId, pusherInstances, pusherClients, redis, authCall,
                 defaultWalletStates, callbackHandlers, selections>>

TokenStep(call) == call.pc = "token" /\ Continue(call, TokenResult(call))

WalletStep(call, outcome) ==
  call.pc = "wallet" /\ Continue(call, WalletResult(call, outcome))

ResultStep(call, outcome) ==
  call.pc = "result" /\ Continue(call, ResultResult(call, outcome))

-----------------------------------------------------------------------------
(* The /login flow: one-shot text listeners registered with bot.onText on   *)
(* the pattern /.*/, their timeouts, and the awaits of the handlers         *)

MaxListeners == 2   \* /.*/ listeners registered at the same time
MaxTimers == 2      \* login timeouts pending at the same time
MaxLogins == 2      \* login handlers suspended at the same time
MaxClients == 2     \* Pusher clients connected at the same time

T_login == <<"/", "l", "o", "g", "i", "n">>
T_logout == <<"/", "l", "o", "g", "o", "u", "t">>
T_otp == <<"1", "2", "3", "4", "5", "6">>
T_otpLong == <<"1", "2", "3", "4", "5", "6", "7">>
T_otpGroups == <<"1", "2", "3", "4", "5", "6", " ", "7">>

LoginTexts == {T_login, T_email, T_otp, T_otpLong, T_otpGroups}

Letters == {"a", "b", "c", "d", "e", "f", "g", "h", "i", "j", "k", "l", "m",
            "n", "o", "p", "q", "r", "s", "t", "u", "v", "w", "x", "y", "z",
            "A", "B", "C", "D", "E", "F", "G", "H", "I", "J", "K", "L", "M",
            "N", "O", "P", "Q", "R", "S", "T", "U", "V", "W", "X", "Y", "Z"}

IsAlnum(ch) == ch \in Letters \/ IsDigit(ch)

MinTldLength == 2

\* /^[a-zA-Z0-9._%+-]+@[a-zA-Z0-9.-]+\.[a-zA-Z]{2,}$/.test(t)
EmailRegexTest(t) ==
  \E a \in 1..Len(t), d \in 1..Len(t) :
    /\ t[a] = "@"
    /\ t[d] = "."
    /\ a > 1
    /\ d > a + 1
    /\ Len(t) - d >= MinTldLength
    /\ \A k \in 1..(a - 1) : IsAlnum(t[k]) \/ t[k] \in {".", "_", "%", "+", "-"}
    /\ \A k \in (a + 1)..(d - 1) : IsAlnum(t[k]) \/ t[k] \in {".", "-"}
    /\ \A k \in (d + 1)..Len(t) : t[k] \in Letters

MaxOtpGroup == 6

\* /^\s*\d{1,6}(?:\s+\d{1,6})*\s*$/.test(t): groups of one to six digits
\* separated by white space
OtpRegexTest(t) ==
  /\ \E k \in 1..Len(t) : IsDigit(t[k])
  /\ \A k \in 1..Len(t) : IsDigit(t[k]) \/ IsSpace(t[k])
  /\ \A k \in 1..(Len(t) - MaxOtpGroup) :
       \E j \in k..(k + MaxOtpGroup) : ~IsDigit(t[j])

\* msg.text?.trim() || ''
TrimOrEmpty(t) == IF Falsy(Trim(t)) THEN <<>> ELSE Trim(t)

\* otp.replace(/\s+/g, '')
StripWhitespace(t) == SelectSeq(t, LAMBDA ch : ~IsSpace(ch))

\* An entry of bot._textRegexpCallbacks made by bot.onText(/.*/, ...): the
\* listener of one login step.  id tells the closures apart; email is the
\* address the code listener was created for.
TextListener(c, step, email, id) == [id |-> id, chat |-> c, step |-> step, email |-> email]

\* The setTimeout made together with listener l.  taken records that the
\* listener has taken its message since.
TimerFor(l) == [id |-> l.id, chat |-> l.chat, step |-> l.step, email |-> l.email,
                taken |-> FALSE]

\* an identity no registered listener and no pending timeout has
FreshId ==
  LET used == {listeners[k].id : k \in DOMAIN listeners}
                \cup {timers[k].id : k \in DOMAIN timers}
  IN CHOOSE n \in 1..(MaxListeners + MaxTimers + 1) :
       n \notin used /\ \A m \in 1..(n - 1) : m \in used

\* bot.removeTextListener(/.*/): the first entry whose pattern prints as
\* /.*/ is removed, whichever listener asked for it
RemoveTextListener(ls) == IF ls = <<>> THEN ls ELSE Tail(ls)

\* if (emailMsg.chat.id !== chatId) return;
ListenerForChat(l, c) == l.chat = c

\* The delivery of one text of chat c to the /.*/ listeners: Array.some
\* visits index k of the array as it is when k is reached, and a listener
\* that takes the message calls removeTextListener before its first await.
RECURSIVE Deliver(_, _, _, _)
Deliver(ls, k, c, taken) ==
  IF k > Len(ls) THEN [left |-> ls, taken |-> taken]
  ELSE IF ~ListenerForChat(ls[k], c) THEN Deliver(ls, k + 1, c, taken)
  ELSE Deliver(RemoveTextListener(ls), k + 1, c, Append(taken, ls[k]))

TextDispatch(c) == Deliver(listeners, 1, c, <<>>)

\* a login handler suspended at an await, with the locals it still needs
Pending(c, pc, email, otp, org) ==
  [chat |-> c, pc |-> pc, email |-> email, otp |-> otp, org |-> org]

\* what a listener that took text t does up to its first await: the email
\* listener rejects or requests the code, the code listener rejects or
\* shows the loading message
Taken(l, t) ==
  IF l.step = "email"
  THEN IF EmailRegexTest(TrimOrEmpty(t))
       THEN [out |-> <<Effect(l.chat, l.id, "api", "requestEmailOTP", "",
                              <<TrimOrEmpty(t)>>)>>,
             pending |-> <<Pending(l.chat, "otpRequest", TrimOrEmpty(t), <<>>, "")>>]
       ELSE [out |-> <<Msg(l.chat, l.id, "invalidEmailFormat")>>, pending |-> <<>>]
  ELSE IF OtpRegexTest(TrimOrEmpty(t))
       THEN [out |-> <<Msg(l.chat, l.id, "authenticating")>>,
             pending |-> <<Pending(l.chat, "loading", l.email, TrimOrEmpty(t), "")>>]
       ELSE [out |-> <<Msg(l.chat, l.id, "invalidOtpFormat")>>, pending |-> <<>>]

\* A text message of chat c while logins are in progress: the /login
\* command handler starts when the text holds /login, and the /.*/
\* listeners are visited in the order of their registration.
LoginMessageResult(c, t) ==
  LET d == TextDispatch(c)
      rs == [k \in DOMAIN d.taken |-> Taken(d.taken[k], t)]
      ids == {d.taken[k].id : k \in DOMAIN d.taken}
  IN [listeners |-> d.left,
      timers |-> [k \in DOMAIN timers |->
                    IF timers[k].id \in ids THEN [timers[k] EXCEPT !.taken = TRUE]
                    ELSE timers[k]],
      pending |-> (IF Contains(t, T_login) THEN <<Pending(c, "auth", <<>>, <<>>, "")>>
                   ELSE <<>>)
                    \o Flatten([k \in DOMAIN rs |-> rs[k].pending]),
      out |-> Flatten([k \in DOMAIN rs |-> rs[k].out])]

LoginMessage(c, t) ==
  LET r == LoginMessageResult(c, t)
  IN /\ BagCardinality(logins) + Len(r.pending) <= MaxLogins
     /\ listeners' = r.listeners
     /\ timers' = r.timers
     /\ logins' = logins (+) BagOf(r.pending)
     /\ UNCHANGED <<session, flows, calls, menus, emailOtpSessions, organizationId,
                    pusherInstances, pusherClients, redis, authCall,
                 defaultWalletStates, callbackHandlers, selections>>

\* the suspended handler p moves on to `next` (empty when it returned)
Resume(p, next) == logins' = (logins (-) SetToBag({p})) (+) BagOf(next)

\* the locals of p at its next await
At(p, pc) == [p EXCEPT !.pc = pc]

\* `await isAuthenticated(chatId)` of the /login handler returned
LoginAuthResult(p) ==
  IF IsAuthenticated(p.chat)
  THEN [next |-> <<>>, out |-> <<Msg(p.chat, 0, "alreadyLoggedIn")>>]
  ELSE [next |-> <<At(p, "prompt")>>, out |-> <<Msg(p.chat, 0, "askEmail")>>]

LoginAuthChecked(p) ==
  /\ p.pc = "auth"
  /\ Resume(p, LoginAuthResult(p).next)
  /\ UNCHANGED <<session, flows, calls, menus, listeners, timers, emailOtpSessions,
                 organizationId, pusherInstances, pusherClients, redis, authCall,
                 defaultWalletStates, callbackHandlers, selections>>

\* bot.onText(/.*/, listener) followed by setTimeout(..., 5 * 60 * 1000)
Register(p, step) ==
  LET l == TextListener(p.chat, step, p.email, FreshId)
  IN /\ Len(listeners) < MaxListeners
     /\ Len(timers) < MaxTimers
     /\ listeners' = Append(listeners, l)
     /\ timers' = Append(timers, TimerFor(l))
     /\ Resume(p, <<>>)
     /\ UNCHANGED <<session, flows, calls, menus, emailOtpSessions, organizationId,
                    pusherInstances, pusherClients, redis, authCall,
                 defaultWalletStates, callbackHandlers, selections>>

\* the email prompt was sent: the email listener and its timeout are set
LoginPrompted(p) == p.pc = "prompt" /\ Register(p, "email")

\* how POST /auth/email-otp/request ends: with a sid, without one, in error
OtpOutcomes == {"sid", "noSid", "error"}

\* the sid the server answers to the request of a chat: every request gets a
\* sid of its own, and the requests of one chat are not told apart here
Sid(c) == c

\* emailOtpSessions.has(email)
SidHas(sessions, email) == \E e \in sessions : e.email = email

\* emailOtpSessions.get(email): <<sid>>, or <<>> for undefined
SidGet(sessions, email) ==
  IF SidHas(sessions, email)
  THEN <<(CHOOSE e \in sessions : e.email = email).sid>>
  ELSE <<>>

\* emailOtpSessions.delete(email)
SidDelete(sessions, email) == {e \in sessions : e.email # email}

\* emailOtpSessions.set(email, sid) replaces the entry of the email
SidSet(sessions, email, sid) ==
  SidDelete(sessions, email) \cup {[email |-> email, sid |-> sid]}

\* requestEmailOTP(email) after its request ended
OtpRequestResult(p, outcome) ==
  [sessions |-> IF outcome = "sid" THEN SidSet(emailOtpSessions, p.email, Sid(p.chat))
                ELSE emailOtpSessions,
   next |-> IF outcome = "error" THEN <<>> ELSE <<At(p, "otpPrompt")>>,
   out |-> IF outcome = "error" THEN <<Msg(p.chat, 0, "failedToSendOtp")>>
           ELSE <<Msg(p.chat, 0, "otpSent")>>]

\* `await requestEmailOTP(email)` returned or threw
OtpRequested(p, outcome) ==
  /\ p.pc = "otpRequest"
  /\ emailOtpSessions' = OtpRequestResult(p, outcome).sessions
  /\ Resume(p, OtpRequestResult(p, outcome).next)
  /\ UNCHANGED <<session, flows, calls, menus, listeners, timers, organizationId,
                 pusherInstances, pusherClients, redis, authCall,
                 defaultWalletStates, callbackHandlers, selections>>

\* the code prompt was sent: the code listener and its timeout are set
OtpPrompted(p) == p.pc = "otpPrompt" /\ Register(p, "otp")

\* the payload of POST /auth/email-otp/authenticate
AuthenticatePayload(p) ==
  Effect(p.chat, 0, "api", "authenticateWithOTP",
         IF SidHas(emailOtpSessions, p.email) THEN "sid" ELSE "undefined",
         <<p.email, StripWhitespace(p.otp)>>)

\* the loading message was sent; authenticateWithOTP(email, otp) posts
LoadingResult(p) ==
  [next |-> <<[At(p, "authenticate") EXCEPT !.otp = <<>>]>>,
   out |-> <<AuthenticatePayload(p)>>]

LoadingShown(p) ==
  /\ p.pc = "loading"
  /\ Resume(p, LoadingResult(p).next)
  /\ UNCHANGED <<session, flows, calls, menus, listeners, timers, emailOtpSessions,
                 organizationId, pusherInstances, pusherClients, redis, authCall,
                 defaultWalletStates, callbackHandlers, selections>>

\* how the authenticate request ends: a token with or without an
\* organizationId, or an error
AuthOutcomes == {"tokenOrg", "token", "error"}

\* authenticateWithOTP after its request ended
AuthenticateResult(p, outcome) ==
  [sessions |-> IF outcome = "error" THEN emailOtpSessions
                ELSE SidDelete(emailOtpSessions, p.email),
   next |-> IF outcome = "error" THEN <<>>
            ELSE <<[At(p, "store") EXCEPT !.org = IF outcome = "tokenOrg" THEN "org" ELSE ""]>>,
   out |-> IF outcome = "error" THEN <<Msg(p.chat, 0, "authenticationFailed")>> ELSE <<>>]

Authenticated(p, outcome) ==
  /\ p.pc = "authenticate"
  /\ emailOtpSessions' = AuthenticateResult(p, outcome).sessions
  /\ Resume(p, AuthenticateResult(p, outcome).next)
  /\ UNCHANGED <<session, flows, calls, menus, listeners, timers, organizationId,
                 pusherInstances, pusherClients, redis, authCall,
                 defaultWalletStates, callbackHandlers, selections>>

\* await storeUserSession(chatId, authToken)
SessionSaved(p) ==
  /\ p.pc = "store"
  /\ session' = [session EXCEPT ![p.chat] = Token(p.chat)]
  /\ organizationId' = [organizationId EXCEPT ![p.chat] = p.org]
  /\ Resume(p, <<At(p, "profile")>>)
  /\ UNCHANGED <<flows, calls, menus, listeners, timers, emailOtpSessions,
                 pusherInstances, pusherClients, redis, authCall,
                 defaultWalletStates, callbackHandlers, selections>>

\* how GET /auth/me ends: a profile with or without an organizationId, or
\* an error
ProfileOutcomes == {"org", "noOrg", "error"}

\* how GET /auth/me ends for a user who changes organization between two
\* logins
ReloginOutcomes == {"org", "otherOrg"}

\* getUserProfile(chatId) returned or threw
ProfileResult(p, outcome) ==
  IF session[p.chat] = NoSession \/ outcome = "error"
  THEN [next |-> <<>>, out |-> <<Msg(p.chat, 0, "authenticationFailed")>>]
  ELSE IF outcome = "org"
  THEN [next |-> <<[At(p, "storeOrg") EXCEPT !.org = "org"]>>, out |-> <<>>]
  ELSE IF outcome = "otherOrg"
  THEN [next |-> <<[At(p, "storeOrg") EXCEPT !.org = "org2"]>>, out |-> <<>>]
  ELSE [next |-> <<At(p, "pusher")>>, out |-> <<>>]

ProfileFetched(p, outcome) ==
  /\ p.pc = "profile"
  /\ Resume(p, ProfileResult(p, outcome).next)
  /\ UNCHANGED <<session, flows, calls, menus, listeners, timers, emailOtpSessions,
                 organizationId, pusherInstances, pusherClients, redis, authCall,
                 defaultWalletStates, callbackHandlers, selections>>

\* await storeUserSession(chatId, {...authToken, organizationId})
OrganizationSaved(p) ==
  /\ p.pc = "storeOrg"
  /\ session' = [session EXCEPT ![p.chat] = Token(p.chat)]
  /\ organizationId' = [organizationId EXCEPT ![p.chat] = p.org]
  /\ Resume(p, <<At(p, "pusher")>>)
  /\ UNCHANGED <<flows, calls, menus, listeners, timers, emailOtpSessions,
                 pusherInstances, pusherClients, redis, authCall,
                 defaultWalletStates, callbackHandlers, selections>>

\* a pending handler that holds a reference to the Pusher client `id`
Holding(p, pc, id) ==
  [chat |-> p.chat, pc |-> pc, email |-> p.email, otp |-> p.otp, org |-> p.org,
   client |-> id]

\* a pending handler that holds no client any more
Released(p, pc) == Pending(p.chat, pc, p.email, p.otp, p.org)

\* `new Pusher(key, {cluster, authorizer})`: connected, without a channel
\* and not in the map; channelName is `private-org-` and the organizationId
\* it subscribes with
PusherClient(id, c) ==
  [id |-> id, chat |-> c, channel |-> FALSE, key |-> FALSE, channelName |-> ""]

\* the clients of chat c
ClientsOf(clients, c) == {cl \in clients : cl.chat = c}

\* the identity of the next client made
FreshClient ==
  LET held == {p.client : p \in {q \in BagToSet(logins) : "client" \in DOMAIN q}}
      used == {cl.id : cl \in pusherClients} \cup held
  IN CHOOSE n \in 1..(MaxClients + MaxLogins + 1) :
       n \notin used /\ \A m \in 1..(n - 1) : m \in used

\* initializePusher(chatId, bot) from its first `await getUserSession` to
\* its second: null without a session or an organizationId, the instance
\* of the map if it has one, else a new client unless it could not be made
InitializePusher(p, made) ==
  IF session[p.chat] = NoSession \/ organizationId[p.chat] = ""
    \/ p.chat \in pusherInstances \/ ~made
  THEN [clients |-> pusherClients, next |-> <<At(p, "deleteLoading")>>]
  ELSE [clients |-> pusherClients \cup {PusherClient(FreshClient, p.chat)},
        next |-> <<Holding(p, "subscribe", FreshClient)>>]

PusherInitialized(p, made) ==
  /\ p.pc = "pusher"
  /\ Cardinality(InitializePusher(p, made).clients) <= MaxClients
  /\ pusherClients' = InitializePusher(p, made).clients
  /\ Resume(p, InitializePusher(p, made).next)
  /\ UNCHANGED <<session, flows, calls, menus, listeners, timers, emailOtpSessions,
                 organizationId, pusherInstances,
                 redis, authCall,
                 defaultWalletStates, callbackHandlers, selections>>

\* pusherInstances.set(chatId, client): the client `id` is the value of the
\* key, and the client that was its value is not any more
MapSet(clients, c, id) ==
  {IF cl.id = id
   THEN [cl EXCEPT !.channel = TRUE, !.key = TRUE, !.channelName = organizationId[c]]
   ELSE IF cl.chat = c THEN [cl EXCEPT !.key = FALSE]
   ELSE cl : cl \in clients}

\* initializePusher after its second `await getUserSession`: null without
\* a session or an organizationId, else the client subscribes to the
\* channel of the organization and is stored in the map
Subscribe(p) ==
  IF session[p.chat] = NoSession \/ organizationId[p.chat] = ""
  THEN [clients |-> pusherClients, instances |-> pusherInstances]
  ELSE [clients |-> MapSet(pusherClients, p.chat, p.client),
        instances |-> pusherInstances \cup {p.chat}]

PusherSubscribed(p) ==
  /\ p.pc = "subscribe"
  /\ pusherClients' = Subscribe(p).clients
  /\ pusherInstances' = Subscribe(p).instances
  /\ Resume(p, <<Released(p, "deleteLoading")>>)
  /\ UNCHANGED <<session, flows, calls, menus, listeners, timers, emailOtpSessions,
                 organizationId,
                 redis, authCall,
                 defaultWalletStates, callbackHandlers, selections>>

\* an authorizer that posts with the token of the login that made the client
AuthorizeCaptured(cl) ==
  <<Effect(cl.chat, 0, "api", "notificationsAuth", "", <<Token(cl.chat)>>)>>

\* authorize(socketId, callback) of the authorizer of a client: the
\* session is read at every attempt; without one the callback gets an
\* error and nothing is posted
Authorize(cl) ==
  IF session[cl.chat] = NoSession
  THEN <<Effect(cl.chat, 0, "callback", "error", "User not authenticated", <<>>)>>
  ELSE <<Effect(cl.chat, 0, "api", "notificationsAuth", "", <<session[cl.chat]>>)>>

\* the handler bound to the deposit event of the channel of a client: the
\* notification is sent to the chat of the client
Deposit(cl) == IF cl.channel THEN <<Msg(cl.chat, 0, "deposit")>> ELSE <<>>

\* a cleanupPusher that does nothing for a chat without a session
DisconnectWithSession(clients, instances, c, id) ==
  IF session[c] = NoSession THEN [clients |-> clients, instances |-> instances]
  ELSE [clients |-> {IF cl.chat = c THEN [cl EXCEPT !.key = FALSE] ELSE cl :
                       cl \in {x \in clients : x.id # id}},
        instances |-> instances \ {c}]

\* pusher.unsubscribe (with an organizationId in the session),
\* pusher.disconnect() and pusherInstances.delete(chatId) of cleanupPusher,
\* for the client `id` it took from the map
Disconnect(clients, instances, c, id) ==
  [clients |-> {IF cl.chat = c THEN [cl EXCEPT !.key = FALSE] ELSE cl :
                  cl \in {x \in clients : x.id # id}},
   instances |-> instances \ {c}]

\* pusherInstances.get(chatId): the identities of the value of the key
MapGet(clients, c) == {cl.id : cl \in {x \in ClientsOf(clients, c) : x.key}}

\* cleanupPusher(chatId) run to its end: nothing without an instance
CleanupPusher(clients, instances, c) ==
  IF MapGet(clients, c) = {} THEN [clients |-> clients, instances |-> instances]
  ELSE Disconnect(clients, instances, c, CHOOSE id \in MapGet(clients, c) : TRUE)

\* the /logout handler up to the end of its session check
LogoutChecked(c) ==
  IF ~IsAuthenticated(c) THEN <<Msg(c, 0, "notLoggedIn")>> ELSE <<>>

\* the /logout handler after its session check: the not-logged-in message,
\* or cleanupPusher up to its `await getUserSession`, or, without an
\* instance, up to `await clearUserSession`
LogoutResult(p) ==
  IF ~IsAuthenticated(p.chat) THEN [next |-> <<>>, out |-> LogoutChecked(p.chat)]
  ELSE IF MapGet(pusherClients, p.chat) = {}
  THEN [next |-> <<At(p, "clear")>>, out |-> <<>>]
  ELSE [next |-> <<Holding(p, "cleanup", CHOOSE id \in MapGet(pusherClients, p.chat) : TRUE)>>,
        out |-> <<>>]

\* the /logout text reaches the /.*/ listeners as any text does, and the
\* /logout handler
LogoutMessage(c) ==
  LET r == LoginMessageResult(c, T_logout)
      p == Pending(c, "logoutAuth", <<>>, <<>>, "")
  IN /\ BagCardinality(logins) + Len(r.pending) + 1 <= MaxLogins
     /\ listeners' = r.listeners
     /\ timers' = r.timers
     /\ logins' = logins (+) BagOf(r.pending) (+) SetToBag({p})
     /\ UNCHANGED <<session, flows, calls, menus, emailOtpSessions, organizationId,
                    pusherInstances, pusherClients, redis, authCall,
                 defaultWalletStates, callbackHandlers, selections>>

LogoutAuthChecked(p) ==
  /\ p.pc = "logoutAuth"
  /\ Resume(p, LogoutResult(p).next)
  /\ UNCHANGED <<session, flows, calls, menus, listeners, timers, emailOtpSessions,
                 organizationId, pusherInstances, pusherClients, redis, authCall,
                 defaultWalletStates, callbackHandlers, selections>>

\* cleanupPusher after its `await getUserSession`
CleanedUp(p) ==
  /\ p.pc = "cleanup"
  /\ pusherClients' = Disconnect(pusherClients, pusherInstances, p.chat, p.client).clients
  /\ pusherInstances' = Disconnect(pusherClients, pusherInstances, p.chat, p.client).instances
  /\ Resume(p, <<Released(p, "clear")>>)
  /\ UNCHANGED <<session, flows, calls, menus, listeners, timers, emailOtpSessions,
                 organizationId,
                 redis, authCall,
                 defaultWalletStates, callbackHandlers, selections>>

\* `await clearUserSession(chatId)` returned (the key is deleted) or threw
ClearResult(p, deleted) ==
  [session |-> IF deleted THEN [session EXCEPT ![p.chat] = NoSession] ELSE session,
   organizationId |-> IF deleted THEN [organizationId EXCEPT ![p.chat] = ""]
                      ELSE organizationId,
   out |-> <<Msg(p.chat, 0, IF deleted THEN "loggedOut" ELSE "logoutError")>>]

LoggedOut(p, deleted) ==
  /\ p.pc = "clear"
  /\ session' = ClearResult(p, deleted).session
  /\ organizationId' = ClearResult(p, deleted).organizationId
  /\ Resume(p, <<>>)
  /\ UNCHANGED <<flows, calls, menus, listeners, timers, emailOtpSessions,
                 pusherInstances, pusherClients, redis, authCall,
                 defaultWalletStates, callbackHandlers, selections>>

\* bot.deleteMessage returned or threw; the welcome message reports the
\* success of the login
WelcomeResult(p, deleted) ==
  [next |-> <<>>,
   out |-> IF deleted THEN <<Msg(p.chat, 0, "welcome")>>
           ELSE <<Msg(p.chat, 0, "authenticationFailed")>>]

Welcomed(p, deleted) ==
  /\ p.pc = "deleteLoading"
  /\ Resume(p, WelcomeResult(p, deleted).next)
  /\ UNCHANGED <<session, flows, calls, menus, listeners, timers, emailOtpSessions,
                 organizationId, pusherInstances, pusherClients, redis, authCall,
                 defaultWalletStates, callbackHandlers, selections>>

\* The oldest timeout fires (all have the same delay): it removes a /.*/
\* listener and sends the timeout message, whatever became of its login.
TimeoutResult ==
  [listeners |-> RemoveTextListener(listeners),
   sessions |-> emailOtpSessions,
   out |-> <<Msg(Head(timers).chat, 0,
                 IF Head(timers).step = "email" THEN "emailTimeout" ELSE "otpTimeout")>>]

Timeout ==
  /\ timers # <<>>
  /\ timers' = Tail(timers)
  /\ listeners' = TimeoutResult.listeners
  /\ emailOtpSessions' = TimeoutResult.sessions
  /\ UNCHANGED <<session, flows, calls, menus, logins, organizationId, pusherInstances, pusherClients, redis, authCall,
                 defaultWalletStates, callbackHandlers, selections>>

-----------------------------------------------------------------------------
(* The commands that need a session, up to their first remote call.  Each   *)
(* yields what the command sends and the conversations it starts.           *)

\* `!isAuthenticated(chatId)` without await tests the promise, not its
\* result, and a promise is truthy whatever it resolves to
IsAuthenticatedPromise(c) == TRUE

\* getWallets, getWalletBalances: the session is read before the request
WalletService(c, operation) ==
  IF session[c] = NoSession
  THEN Effect(c, 0, "msg", "errorFetching", "User not authenticated", <<>>)
  ELSE Effect(c, 0, "api", operation, "", <<session[c]>>)

\* balanceCommand, walletsCommand, setDefaultWalletCommand
WalletCommand(c, operation) ==
  IF ~IsAuthenticatedPromise(c) THEN <<Msg(c, 0, "loginFirst")>>
  ELSE <<Msg(c, 0, "fetching"), WalletService(c, operation)>>

\* historyCommand
HistoryCommand(c) ==
  IF ~IsAuthenticated(c) THEN <<Msg(c, 0, "loginFirst")>>
  ELSE <<Msg(c, 0, "fetching"),
         Effect(c, 0, "api", "getTransactionHistory", "", <<session[c]>>)>>

\* the /profile handler
ProfileCommand(c) ==
  IF ~IsAuthenticated(c) THEN <<Msg(c, 0, "notLoggedIn")>>
  ELSE <<Effect(c, 0, "api", "getUserProfile", "", <<session[c]>>)>>

SessionCommands == {"/profile", "/balance", "/wallets", "/setdefaultwallet", "/send",
                    "/withdraw", "/history", "/logout"}

\* what command cmd of chat c sends, and the conversations it starts
SessionCommand(c, cmd) ==
  CASE cmd = "/send" -> CommandResult(c, T_send)
    [] cmd = "/withdraw" -> CommandResult(c, T_withdraw)
    [] cmd = "/balance" -> [start |-> <<>>, out |-> WalletCommand(c, "getWalletBalances")]
    [] cmd \in {"/wallets", "/setdefaultwallet"} ->
         [start |-> <<>>, out |-> WalletCommand(c, "getWallets")]
    [] cmd = "/history" -> [start |-> <<>>, out |-> HistoryCommand(c)]
    [] cmd = "/profile" -> [start |-> <<>>, out |-> ProfileCommand(c)]
    [] OTHER -> [start |-> <<>>, out |-> LogoutChecked(c)]

-----------------------------------------------------------------------------
(* Spec: every conversation of one chat, with its session coming and going *)

Solo == {1}

Init ==
  /\ session = [c \in Chats |-> NoSession]
  /\ flows = <<>>
  /\ calls = EmptyBag
  /\ menus = {}
  /\ listeners = <<>>
  /\ timers = <<>>
  /\ logins = <<>>
  /\ emailOtpSessions = {}
  /\ organizationId = [c \in Chats |-> ""]
  /\ pusherInstances = {}
  /\ pusherClients = {}
  /\ redis = [k \in RedisKeys |-> <<>>]
  /\ authCall = <<>>
  /\ defaultWalletStates = {}
  /\ callbackHandlers = [c \in Chats |-> 0]
  /\ selections = EmptyBag

Next ==
  \/ \E c \in Solo : SessionStored(c)
  \/ \E c \in Solo : SessionCleared(c)
  \/ \E c \in Solo, t \in Texts : Message(c, t)
  \/ \E c \in Solo, data \in Buttons : Button(c, data)
  \/ \E call \in BagToSet(calls) : TokenStep(call)
  \/ \E call \in BagToSet(calls), outcome \in WalletOutcomes : WalletStep(call, outcome)
  \/ \E call \in BagToSet(calls), outcome \in ApiOutcomes : ResultStep(call, outcome)

Spec == Init /\ [][Next]_vars

-----------------------------------------------------------------------------
(* SpecCross: the conversations of two logged-in chats on the shared event  *)
(* sources                                                                  *)

\* the texts the two chats send
CrossTexts == {T_email, T_amount, T_address, T_send, T_withdraw}

InitCross ==
  /\ session = [c \in Chats |-> Token(c)]
  /\ flows = <<>>
  /\ calls = EmptyBag
  /\ menus = {}
  /\ listeners = <<>>
  /\ timers = <<>>
  /\ logins = <<>>
  /\ emailOtpSessions = {}
  /\ organizationId = [c \in Chats |-> ""]
  /\ pusherInstances = {}
  /\ pusherClients = {}
  /\ redis = [k \in RedisKeys |-> <<>>]
  /\ authCall = <<>>
  /\ defaultWalletStates = {}
  /\ callbackHandlers = [c \in Chats |-> 0]
  /\ selections = EmptyBag

NextCross ==
  \/ \E c \in Chats, t \in CrossTexts : Message(c, t)
  \/ \E c \in Chats, data \in Buttons : Button(c, data)
  \/ \E call \in BagToSet(calls) : TokenStep(call)
  \/ \E call \in BagToSet(calls), outcome \in WalletOutcomes : WalletStep(call, outcome)
  \/ \E call \in BagToSet(calls), outcome \in ApiOutcomes : ResultStep(call, outcome)

SpecCross == InitCross /\ [][NextCross]_vars

-----------------------------------------------------------------------------
(* SpecLogin: the logins of two chats on the shared text-listener list, up  *)
(* to the registration of the code listener                                 *)

\* the texts the two chats send
CrossLoginTexts == {T_login, T_email, T_otpLong}

NextLogin ==
  \/ \E c \in Chats, t \in CrossLoginTexts : LoginMessage(c, t)
  \/ \E p \in BagToSet(logins) : LoginAuthChecked(p)
  \/ \E p \in BagToSet(logins) : LoginPrompted(p)
  \/ \E p \in BagToSet(logins), outcome \in OtpOutcomes : OtpRequested(p, outcome)
  \/ \E p \in BagToSet(logins) : OtpPrompted(p)
  \/ Timeout

SpecLogin == Init /\ [][NextLogin]_vars

-----------------------------------------------------------------------------
(* SpecLoginSolo: the whole login of one chat, from /login to the welcome   *)
(* message, with its session coming and going                               *)

NextLoginSolo ==
  \/ \E c \in Solo : SessionCleared(c)
  \/ \E c \in Solo, t \in LoginTexts : LoginMessage(c, t)
  \/ \E p \in BagToSet(logins) : LoginAuthChecked(p)
  \/ \E p \in BagToSet(logins) : LoginPrompted(p)
  \/ \E p \in BagToSet(logins), outcome \in OtpOutcomes : OtpRequested(p, outcome)
  \/ \E p \in BagToSet(logins) : OtpPrompted(p)
  \/ \E p \in BagToSet(logins) : LoadingShown(p)
  \/ \E p \in BagToSet(logins), outcome \in AuthOutcomes : Authenticated(p, outcome)
  \/ \E p \in BagToSet(logins) : SessionSaved(p)
  \/ \E p \in BagToSet(logins), outcome \in ProfileOutcomes : ProfileFetched(p, outcome)
  \/ \E p \in BagToSet(logins) : OrganizationSaved(p)
  \/ \E p \in BagToSet(logins), made \in BOOLEAN : PusherInitialized(p, made)
  \/ \E p \in BagToSet(logins) : PusherSubscribed(p)
  \/ \E p \in BagToSet(logins), deleted \in BOOLEAN : Welcomed(p, deleted)
  \/ Timeout

SpecLoginSolo == Init /\ [][NextLoginSolo]_vars

-----------------------------------------------------------------------------
(* SpecNotify: the logins and the logouts of one chat, with the steps of    *)
(* the notification service between them                                    *)

\* the texts of a login that succeeds
NotifyTexts == {T_login, T_email, T_otp}

NextNotify ==
  \/ \E c \in Solo : SessionCleared(c)
  \/ \E c \in Solo, t \in NotifyTexts : LoginMessage(c, t)
  \/ \E c \in Solo : LogoutMessage(c)
  \/ \E p \in BagToSet(logins) : LoginAuthChecked(p)
  \/ \E p \in BagToSet(logins) : LoginPrompted(p)
  \/ \E p \in BagToSet(logins), outcome \in OtpOutcomes : OtpRequested(p, outcome)
  \/ \E p \in BagToSet(logins) : OtpPrompted(p)
  \/ \E p \in BagToSet(logins) : LoadingShown(p)
  \/ \E p \in BagToSet(logins), outcome \in AuthOutcomes : Authenticated(p, outcome)
  \/ \E p \in BagToSet(logins) : SessionSaved(p)
  \/ \E p \in BagToSet(logins), outcome \in ProfileOutcomes : ProfileFetched(p, outcome)
  \/ \E p \in BagToSet(logins) : OrganizationSaved(p)
  \/ \E p \in BagToSet(logins), made \in BOOLEAN : PusherInitialized(p, made)
  \/ \E p \in BagToSet(logins) : PusherSubscribed(p)
  \/ \E p \in BagToSet(logins), deleted \in BOOLEAN : Welcomed(p, deleted)
  \/ \E p \in BagToSet(logins) : LogoutAuthChecked(p)
  \/ \E p \in BagToSet(logins) : CleanedUp(p)
  \/ \E p \in BagToSet(logins), deleted \in BOOLEAN : LoggedOut(p, deleted)
  \/ Timeout

SpecNotify == Init /\ [][NextNotify]_vars

-----------------------------------------------------------------------------
(* authenticateWithOTP: what it makes of the answer of POST                 *)
(* /auth/email-otp/authenticate.  A message is a sequence of pieces of      *)
(* text; a value that may be missing is the empty sequence or a sequence    *)
(* of one element.                                                          *)

\* Array.prototype.join of pieces of text
RECURSIVE Join(_, _)
Join(parts, sep) ==
  IF parts = <<>> THEN <<>>
  ELSE IF Len(parts) = 1 THEN parts[1]
  ELSE parts[1] \o <<sep>> \o Join(Tail(parts), sep)

\* Array.prototype.filter(Boolean) of texts: the empty ones go
RECURSIVE FilterBoolean(_)
FilterBoolean(parts) ==
  IF parts = <<>> THEN <<>>
  ELSE IF Head(parts) = <<>> THEN FilterBoolean(Tail(parts))
  ELSE <<Head(parts)>> \o FilterBoolean(Tail(parts))

\* String(value) of an object
ObjectToString == <<"[object Object]">>

\* JSON.stringify of an object: its members between braces
JsonStringify(names) == <<"{">> \o names \o <<"}">>

\* a string is one piece of text; the empty string is no piece
Str(s) == IF s = "" THEN <<>> ELSE <<s>>

\* the values of the JSON documents of the error bodies
JsonUndefined == [kind |-> "undefined", text |-> "", items |-> <<>>]
JsonString(s) == [kind |-> "string", text |-> s, items |-> <<>>]
JsonArray(items) == [kind |-> "array", text |-> "", items |-> items]
JsonObject(names) == [kind |-> "object", text |-> "", items |-> names]

\* a validation error object of class-validator: property, constraints and
\* children, each of which may be missing
ValidationError(property, constraints, children) ==
  [kind |-> "error", property |-> property, constraints |-> constraints,
   children |-> children]

\* the element of an array as join() and the template literals print it
ItemToString(item) ==
  IF item.kind = "string" THEN Str(item.text) ELSE ObjectToString

\* the names of the members of a validation error object
MemberNames(errorObj) ==
  (IF errorObj.property = "" THEN <<>> ELSE <<"property">>)
    \o (IF errorObj.constraints = <<>> THEN <<>> ELSE <<"constraints">>)
    \o (IF errorObj.children = <<>> THEN <<>> ELSE <<"children">>)

\* Object.values(constraints).join(', ')
Constraints(errorObj) ==
  Join([k \in DOMAIN errorObj.constraints[1] |-> Str(errorObj.constraints[1][k])], ", ")

\* a children.map callback that leaves the parent out
ChildErrorUnqualified(errorObj, child) ==
  IF child.property # "" /\ child.constraints # <<>>
  THEN <<child.property, ": ">> \o
         Join([k \in DOMAIN child.constraints[1] |-> <<child.constraints[1][k]>>], ", ")
  ELSE <<>>

\* the callback of children.map: `parent.child: constraints`, or null
ChildError(errorObj, child) ==
  IF child.property # "" /\ child.constraints # <<>>
  THEN <<errorObj.property, ".", child.property, ": ">> \o Constraints(child)
  ELSE <<>>

\* the callback of message.map (lines 327-347)
FormatError(errorObj) ==
  IF errorObj.kind = "string" THEN <<"\"", errorObj.text, "\"">>
  ELSE IF errorObj.property # "" /\ errorObj.constraints # <<>>
  THEN <<errorObj.property, ": ">> \o Constraints(errorObj)
  ELSE IF errorObj.property # "" /\ errorObj.children # <<>>
  THEN LET nestedErrors ==
             Join(FilterBoolean([k \in DOMAIN errorObj.children[1] |->
                                   ChildError(errorObj, errorObj.children[1][k])]), "; ")
       IN IF nestedErrors = <<>> THEN <<"Invalid ", errorObj.property>> ELSE nestedErrors
  ELSE JsonStringify(MemberNames(errorObj))

\* the message of a 422 answer before its errors member is looked at
\* (lines 314-373)
ValidationMessage(message) ==
  IF message.kind = "string" THEN Str(message.text)
  ELSE IF message.kind = "array"
  THEN IF message.items # <<>> /\ message.items[1].kind # "string"
       THEN LET formattedErrors ==
                  Join(FilterBoolean([k \in DOMAIN message.items |->
                                        FormatError(message.items[k])]), "; ")
            IN IF formattedErrors = <<>> THEN <<"Validation failed">> ELSE formattedErrors
       ELSE Join([k \in DOMAIN message.items |-> ItemToString(message.items[k])], ", ")
  ELSE IF message.kind = "object" THEN JsonStringify(message.items)
  ELSE <<"Validation failed">>

\* the errors member of a 422 answer: `field: messages` of each entry,
\* joined by "; " (lines 376-388); errors is a sequence of <<field, value>>
ErrorDetails(errors) ==
  Join([k \in DOMAIN errors |->
          <<errors[k][1], ": ">> \o
            (IF errors[k][2].kind = "array"
             THEN Join([j \in DOMAIN errors[k][2].items |->
                          ItemToString(errors[k][2].items[j])], ", ")
             ELSE ItemToString(errors[k][2]))], "; ")

\* statusMessages (lines 399-408) and the phrase for any other status
StatusMessage(status) ==
  CASE status = 400 -> "Bad request - Please check your input"
    [] status = 401 -> "Unauthorized - Invalid credentials"
    [] status = 403 -> "Forbidden - You don't have permission to access this resource"
    [] status = 404 -> "Not found - The requested authentication endpoint was not found"
    [] status = 500 -> "Server error - The authentication service is experiencing issues"
    [] status = 502 -> "Bad gateway - The authentication service is currently unavailable"
    [] status = 503 -> "Service unavailable - The authentication service is temporarily down"
    [] status = 504 -> "Gateway timeout - The authentication service timed out"
    [] OTHER -> "Authentication failed"

\* `a || b`: a value that is undefined or the empty string is falsy
Truthy(value) == ~(value.kind = "undefined" \/ (value.kind = "string" /\ value.text = ""))

\* the message of the Error authenticateWithOTP throws for an answer with
\* an error status: data is [message, error, errors]
ErrorMessage(status, data) ==
  IF status = 422
  THEN LET errorMessage == ValidationMessage(data.message)
           errorDetails == ErrorDetails(data.errors)
       IN IF errorDetails # <<>> THEN errorMessage \o <<": ">> \o errorDetails
          ELSE errorMessage
  ELSE LET errorMessage == IF Truthy(data.message) THEN data.message
                           ELSE IF Truthy(data.error) THEN data.error
                           ELSE JsonString(StatusMessage(status))
       IN IF errorMessage.kind = "array"
          THEN Join([k \in DOMAIN errorMessage.items |->
                       ItemToString(errorMessage.items[k])], ", ")
          ELSE IF errorMessage.kind = "object"
          THEN <<"Authentication failed with validation errors">>
          ELSE Str(errorMessage.text)

\* a token that is not there is "", a number that is not there is 0, and
\* expireAt and user are sequences of at most one element
Falsey(value) == value = "" \/ value = 0 \/ value = <<>>

\* `a || b` of two strings
Or(a, b) == IF a # "" THEN a ELSE b

\* an authenticateWithOTP that reads only the token member
TokenOnly(data) == data.token

\* response.data.token || response.data.accessToken
TokenOf(data) == Or(data.token, data.accessToken)

\* expiresIn, or the whole seconds from now to expireAt (lines 253-263);
\* 0 when the answer has neither
ExpiresIn(data, now) ==
  IF data.expiresIn = 0 /\ data.expireAt # <<>>
  THEN (data.expireAt[1] - now) \div 1000
  ELSE data.expiresIn

\* organizationId of the top level, or of the user object (lines 266-270)
OrganizationOf(data) ==
  IF data.organizationId = "" /\ data.user # <<>> /\ data.user[1] # ""
  THEN data.user[1]
  ELSE data.organizationId

Returned(tokens) == [kind |-> "returned", tokens |-> <<tokens>>, message |-> <<>>]
Thrown(message) == [kind |-> "thrown", tokens |-> <<>>, message |-> message]

\* authenticateWithOTP once the request ended: answer is [status, data],
\* with status 0 when there was no answer at all
AuthenticateWithOTP(answer, now) ==
  IF answer.status = 0 THEN Thrown(<<"Authentication failed">>)
  ELSE IF answer.status = 200
  THEN IF TokenOf(answer.data) = "" THEN Thrown(<<"Authentication failed">>)
       ELSE Returned(AuthToken(TokenOf(answer.data),
                               Or(answer.data.refreshToken, answer.data.refresh_token),
                               ExpiresIn(answer.data, now),
                               OrganizationOf(answer.data)))
  ELSE Thrown(ErrorMessage(answer.status, answer.data))

-----------------------------------------------------------------------------
(* SpecStore: the session store under its own operations, for two users    *)

\* the tokens written: with and without a refresh token and an
\* organizationId
SessionValues ==
  {AuthToken(t, r, 3600, o) : t \in {"tok1"}, r \in {"", "rt1"}, o \in {"", "org1"}}

\* the expiryInSeconds arguments: not given, a minute, an hour
Expiries == {<<>>, <<60>>, <<3600>>}

SessionWritten(c, token, expiry, up) ==
  /\ redis' = StoreUserSession(redis, c, token, expiry, up).store
  /\ UNCHANGED <<session, flows, calls, menus, listeners, timers, logins,
                 emailOtpSessions, organizationId, pusherInstances, pusherClients,
                 authCall,
                 defaultWalletStates, callbackHandlers, selections>>

ExpiryUpdated(c, expiry, up) ==
  /\ redis' = UpdateSessionExpiry(redis, c, expiry, up).store
  /\ UNCHANGED <<session, flows, calls, menus, listeners, timers, logins,
                 emailOtpSessions, organizationId, pusherInstances, pusherClients,
                 authCall,
                 defaultWalletStates, callbackHandlers, selections>>

SessionDeleted(c, up) ==
  /\ redis' = DeleteUserSession(redis, c, up).store
  /\ UNCHANGED <<session, flows, calls, menus, listeners, timers, logins,
                 emailOtpSessions, organizationId, pusherInstances, pusherClients,
                 authCall,
                 defaultWalletStates, callbackHandlers, selections>>

\* the time-to-live of a key ran out
KeyExpired(c) ==
  /\ redis[SessionKey(c)] # <<>>
  /\ redis' = [redis EXCEPT ![SessionKey(c)] = <<>>]
  /\ UNCHANGED <<session, flows, calls, menus, listeners, timers, logins,
                 emailOtpSessions, organizationId, pusherInstances, pusherClients,
                 authCall,
                 defaultWalletStates, callbackHandlers, selections>>

NextStore ==
  \/ \E c \in Chats, token \in SessionValues, expiry \in Expiries, up \in BOOLEAN :
       SessionWritten(c, token, expiry, up)
  \/ \E c \in Chats, expiry \in Expiries, up \in BOOLEAN : ExpiryUpdated(c, expiry, up)
  \/ \E c \in Chats, up \in BOOLEAN : SessionDeleted(c, up)
  \/ \E c \in Chats : KeyExpired(c)

SpecStore == Init /\ [][NextStore]_vars

-----------------------------------------------------------------------------
(* SpecRefresh: refreshToken of one user under the answers of the remote    *)
(* service and of Redis, next to the writes and the expiry of the session   *)

\* the answers of POST /auth/refresh
RefreshAnswers ==
  {RefreshAnswer("ok", t, r, o) : t \in {"", "tok2"}, r \in {"", "rt2"},
                                  o \in {<<>>, <<"org2">>}}
    \cup {RefreshAnswer("http", "", "", <<>>), RefreshAnswer("network", "", "", <<>>)}

TokenRefreshed(c, answer, upGet, upStore, upDelete) ==
  /\ redis' = RefreshToken(redis, c, answer, upGet, upStore, upDelete).store
  /\ authCall' = <<[chat |-> c, answer |-> answer, before |-> redis[SessionKey(c)],
                    upGet |-> upGet, upStore |-> upStore, upDelete |-> upDelete,
                    thrown |-> RefreshToken(redis, c, answer, upGet, upStore, upDelete).thrown,
                    after |-> RefreshToken(redis, c, answer, upGet, upStore,
                                           upDelete).store[SessionKey(c)]]>>
  /\ UNCHANGED <<session, flows, calls, menus, listeners, timers, logins,
                 emailOtpSessions, organizationId, pusherInstances, pusherClients,
                 defaultWalletStates, callbackHandlers, selections>>

NextRefresh ==
  \/ \E c \in Solo, token \in SessionValues : SessionWritten(c, token, <<>>, TRUE)
  \/ \E c \in Solo : KeyExpired(c)
  \/ \E c \in Solo, answer \in RefreshAnswers, upGet, upStore, upDelete \in BOOLEAN :
       TokenRefreshed(c, answer, upGet, upStore, upDelete)

SpecRefresh == Init /\ [][NextRefresh]_vars

-----------------------------------------------------------------------------
(* SpecAuthenticate: authenticateWithOTP under the answers of the remote    *)
(* service                                                                  *)

\* the clock of the call, in milliseconds
Nows == {5000, 5999}

\* answers with status 200
SuccessData ==
  [token : {"", "tok1"}, accessToken : {"", "tok2"}, refreshToken : {"", "rt1"},
   refresh_token : {"", "rt2"}, expiresIn : {0, 3600},
   expireAt : {<<>>, <<9000>>, <<4500>>}, organizationId : {"", "org1"},
   user : {<<>>, <<"">>, <<"org2">>}]

\* validation error objects: with constraints, with children, with both,
\* with neither
OtpError == ValidationError("otp", <<<<"otp must be a string", "otp is short">>>>, <<>>)
EmailError == ValidationError("email", <<<<"email must be an email">>>>, <<>>)
UserError ==
  ValidationError("user", <<>>,
                  <<<<ValidationError("name", <<<<"name is empty">>>>, <<>>),
                      ValidationError("age", <<>>, <<>>)>>>>)
DeepError ==
  ValidationError("user", <<>>, <<<<ValidationError("address", <<>>, <<<<EmailError>>>>)>>>>)
BothError == ValidationError("otp", <<<<"otp is short">>>>, <<<<EmailError>>>>)
BareError == ValidationError("", <<>>, <<>>)

\* the message member of an error body
ErrorMessages ==
  {JsonUndefined, JsonString("Invalid OTP"),
   JsonArray(<<JsonString("otp is short"), JsonString("email is missing")>>),
   JsonArray(<<OtpError>>), JsonArray(<<OtpError, EmailError>>),
   JsonArray(<<EmailError, UserError>>), JsonArray(<<DeepError>>),
   JsonArray(<<BothError>>), JsonArray(<<BareError>>),
   JsonObject(<<"otp">>)}

\* the errors member of an error body: missing, arrays of texts, an object
ErrorsMembers ==
  {<<>>, <<<<"otp", JsonArray(<<JsonString("too short")>>)>>>>,
   <<<<"otp", JsonObject(<<"isLength">>)>>>>}

ErrorData ==
  [message : ErrorMessages, error : {JsonUndefined, JsonString("Unprocessable Entity")},
   errors : ErrorsMembers]

ErrorStatuses == {400, 401, 403, 404, 418, 422, 500, 502, 503, 504}

AuthenticateAnswers ==
  [status : {200}, data : SuccessData] \cup [status : ErrorStatuses, data : ErrorData]

\* the request of authenticateWithOTP ended with `answer`
AuthenticateAnswered(answer, now) ==
  /\ authCall' = <<[answer |-> answer, now |-> now,
                    result |-> AuthenticateWithOTP(answer, now)]>>
  /\ UNCHANGED <<session, flows, calls, menus, listeners, timers, logins,
                 emailOtpSessions, organizationId, pusherInstances, pusherClients,
                 redis, defaultWalletStates, callbackHandlers, selections>>

NextAuthenticate ==
  \E answer \in AuthenticateAnswers, now \in Nows : AuthenticateAnswered(answer, now)

SpecAuthenticate == Init /\ [][NextAuthenticate]_vars

-----------------------------------------------------------------------------
(* SpecRelogin: the logins of one chat, one after the other, whose session  *)
(* ends and whose user logs in again, for the same or for another           *)
(* organization                                                             *)

NextRelogin ==
  \/ \E c \in Solo : SessionCleared(c)
  \/ \E c \in Solo, t \in NotifyTexts :
       /\ t = T_login => logins = EmptyBag
       /\ LoginMessage(c, t)
  \/ \E p \in BagToSet(logins) : LoginAuthChecked(p)
  \/ \E p \in BagToSet(logins) : LoginPrompted(p)
  \/ \E p \in BagToSet(logins) : OtpRequested(p, "sid")
  \/ \E p \in BagToSet(logins) : OtpPrompted(p)
  \/ \E p \in BagToSet(logins) : LoadingShown(p)
  \/ \E p \in BagToSet(logins) : Authenticated(p, "token")
  \/ \E p \in BagToSet(logins) : SessionSaved(p)
  \/ \E p \in BagToSet(logins), outcome \in ReloginOutcomes : ProfileFetched(p, outcome)
  \/ \E p \in BagToSet(logins) : OrganizationSaved(p)
  \/ \E p \in BagToSet(logins) : PusherInitialized(p, TRUE)
  \/ \E p \in BagToSet(logins) : PusherSubscribed(p)
  \/ \E p \in BagToSet(logins) : Welcomed(p, TRUE)
  \/ Timeout

SpecRelogin == Init /\ [][NextRelogin]_vars

-----------------------------------------------------------------------------
(* SpecOtp: the logins of two chats with the same email, from /login to    *)
(* the answer of the authenticate request                                   *)

\* how the authenticate request ends here
OtpAuthOutcomes == {"token", "error"}

NextOtp ==
  \/ \E c \in Chats, t \in NotifyTexts : LoginMessage(c, t)
  \/ \E p \in BagToSet(logins) : LoginAuthChecked(p)
  \/ \E p \in BagToSet(logins) : LoginPrompted(p)
  \/ \E p \in BagToSet(logins) : OtpRequested(p, "sid")
  \/ \E p \in BagToSet(logins) : OtpPrompted(p)
  \/ \E p \in BagToSet(logins) : LoadingShown(p)
  \/ \E p \in BagToSet(logins), outcome \in OtpAuthOutcomes : Authenticated(p, outcome)
  \/ Timeout

SpecOtp == Init /\ [][NextOtp]_vars

-----------------------------------------------------------------------------
(* SpecDefaultWallet: /setdefaultwallet and the buttons of its keyboard,    *)
(* for one chat (setDefaultWalletCommand, src/unnamed/part_000)             *)

\* /setdefaultwallet commands a chat issues, and button events it sends
MaxHandlers == 2
MaxEvents == 2

\* a /setdefaultwallet handler at `await getWallets(chatId)`; event is the
\* button event of a run of a button handler, 0 for a command, and called
\* tells that the run has posted the set-default request
SetDefaultWalletRun(c) == [chat |-> c, pc |-> "getWallets", event |-> 0, called |-> FALSE]

\* the session test `!isAuthenticated(chatId)` negates a Promise and never
\* holds: the handler goes on to `await getWallets(chatId)`
SetDefaultWalletCommand(c) ==
  /\ callbackHandlers[c] + CopiesIn(SetDefaultWalletRun(c), selections)
       + CopiesIn([SetDefaultWalletRun(c) EXCEPT !.pc = "keyboard"], selections) < MaxHandlers
  /\ selections' = selections (+) SetToBag({SetDefaultWalletRun(c)})
  /\ UNCHANGED <<session, flows, calls, menus, listeners, timers, logins,
                 emailOtpSessions, organizationId, pusherInstances, pusherClients,
                 redis, authCall, defaultWalletStates, callbackHandlers>>

\* a run r goes on as the runs of next
Proceed(r, next) == selections' = (selections (-) SetToBag({r})) (+) BagOf(next)

\* how getWallets ends: with wallets, with none, in error
WalletsOutcomes == {"wallets", "empty", "error"}

\* getWallets returned: the selection state is set before the keyboard is
\* sent
WalletsFetched(r, outcome) ==
  /\ r.pc = "getWallets"
  /\ defaultWalletStates' = IF outcome = "wallets" THEN defaultWalletStates \cup {r.chat}
                            ELSE defaultWalletStates
  /\ Proceed(r, IF outcome = "wallets" THEN <<[r EXCEPT !.pc = "keyboard"]>> ELSE <<>>)
  /\ UNCHANGED <<session, flows, calls, menus, listeners, timers, logins,
                 emailOtpSessions, organizationId, pusherInstances, pusherClients,
                 redis, authCall, callbackHandlers>>

\* the keyboard was sent: bot.on('callback_query', ...) adds a handler
KeyboardSent(r) ==
  /\ r.pc = "keyboard"
  /\ callbackHandlers' = [callbackHandlers EXCEPT ![r.chat] = @ + 1]
  /\ Proceed(r, <<>>)
  /\ UNCHANGED <<session, flows, calls, menus, listeners, timers, logins,
                 emailOtpSessions, organizationId, pusherInstances, pusherClients,
                 redis, authCall, defaultWalletStates>>

\* the button events that started a run
Events == {r.event : r \in BagToSet(selections)} \ {0}

\* the handlers a default_wallet:<id> event of a chat does not return from
\* before their first await: those of the chat, while its state awaits a
\* selection
WalletHandlersEntered(states, handlers, c) == IF c \in states THEN handlers[c] ELSE 0

\* one default_wallet:<id> event of chat c: the emitter calls every handler
\* in turn, each runs to `await bot.answerCallbackQuery`
DefaultWalletButton(c) ==
  /\ Cardinality(Events) < MaxEvents
  /\ WalletHandlersEntered(defaultWalletStates, callbackHandlers, c) > 0
  /\ selections' = selections (+)
       [r \in {[chat |-> c, pc |-> "answer", event |-> Cardinality(Events) + 1,
                called |-> FALSE]} |->
          WalletHandlersEntered(defaultWalletStates, callbackHandlers, c)]
  /\ UNCHANGED <<session, flows, calls, menus, listeners, timers, logins,
                 emailOtpSessions, organizationId, pusherInstances, pusherClients,
                 redis, authCall, defaultWalletStates, callbackHandlers>>

\* answerCallbackQuery returned, setDefaultWallet(chatId, walletId) posts; or
\* it threw and the error is reported
CallbackAnswered(r, ok) ==
  /\ r.pc = "answer"
  /\ Proceed(r, <<IF ok THEN [r EXCEPT !.pc = "setDefault", !.called = TRUE]
                  ELSE [r EXCEPT !.pc = "done"]>>)
  /\ UNCHANGED <<session, flows, calls, menus, listeners, timers, logins,
                 emailOtpSessions, organizationId, pusherInstances, pusherClients,
                 redis, authCall, defaultWalletStates, callbackHandlers>>

\* defaultWalletStates after setDefaultWallet returned or threw
DefaultWalletSet(states, c, ok) == IF ok THEN states \ {c} ELSE states

\* setDefaultWallet returned or threw; what follows only sends
DefaultWalletAnswered(r, ok) ==
  /\ r.pc = "setDefault"
  /\ defaultWalletStates' = DefaultWalletSet(defaultWalletStates, r.chat, ok)
  /\ Proceed(r, <<[r EXCEPT !.pc = IF ok THEN "done" ELSE "failed"]>>)
  /\ UNCHANGED <<session, flows, calls, menus, listeners, timers, logins,
                 emailOtpSessions, organizationId, pusherInstances, pusherClients,
                 redis, authCall, callbackHandlers>>

NextDefaultWallet ==
  \/ \E c \in Solo : SetDefaultWalletCommand(c)
  \/ \E r \in BagToSet(selections), outcome \in WalletsOutcomes : WalletsFetched(r, outcome)
  \/ \E r \in BagToSet(selections) : KeyboardSent(r)
  \/ \E c \in Solo : DefaultWalletButton(c)
  \/ \E r \in BagToSet(selections), ok \in BOOLEAN : CallbackAnswered(r, ok)
  \/ \E r \in BagToSet(selections), ok \in BOOLEAN : DefaultWalletAnswered(r, ok)

SpecDefaultWallet == Init /\ [][NextDefaultWallet]_vars

-----------------------------------------------------------------------------
(* SpecWithdraw: the withdrawals of one logged-in chat that has a send      *)
(* conversation, with room for two wallet withdrawals                       *)

\* the texts and the buttons of the withdrawals
WithdrawTexts == {T_send, T_withdraw, T_address, T_amount}
WithdrawButtons == {"withdraw_wallet", "network_solana", "confirm_wallet_withdraw",
                    "cancel_withdraw"}

\* a message of the chat, with room for MaxWithdrawFlows conversations
WithdrawMessage(c, t) ==
  LET r == MessageResult(c, t)
  IN /\ Len(r.flows) <= MaxWithdrawFlows
     /\ flows' = r.flows
     /\ menus' = r.menus
     /\ UNCHANGED <<session, calls, listeners, timers, logins,
                    emailOtpSessions, organizationId, pusherInstances, pusherClients, redis, authCall,
                 defaultWalletStates, callbackHandlers, selections>>

\* a button press of the chat, with room for MaxWithdrawFlows conversations
WithdrawButton(c, data) ==
  LET r == ButtonResult(c, data)
  IN /\ data \in ShownTo(c)
     /\ Len(r.flows) <= MaxWithdrawFlows
     /\ BagCardinality(calls) + Len(r.calls) <= MaxPending
     /\ flows' = r.flows
     /\ calls' = calls (+) BagOf(r.calls)
     /\ UNCHANGED <<session, menus, listeners, timers, logins,
                    emailOtpSessions, organizationId, pusherInstances, pusherClients, redis, authCall,
                 defaultWalletStates, callbackHandlers, selections>>

NextWithdraw ==
  \/ \E c \in Solo, t \in WithdrawTexts : WithdrawMessage(c, t)
  \/ \E c \in Solo, data \in WithdrawButtons : WithdrawButton(c, data)
  \/ \E call \in BagToSet(calls) : TokenStep(call)
  \/ \E call \in BagToSet(calls), outcome \in ApiOutcomes : ResultStep(call, outcome)

SpecWithdraw == InitCross /\ [][NextWithdraw]_vars

-----------------------------------------------------------------------------
(* Properties of the conversations *)

\* the confirm button of a conversation's summary
ConfirmButton(kind) ==
  CASE kind = "send" -> "confirm_send"
    [] kind = "wallet" -> "confirm_wallet_withdraw"
    [] OTHER -> "confirm_bank_withdraw"

\* the conversation has collected all of its fields and shown its summary
Collected(f) == f.listener = "none" /\ (f.kind = "wallet" => Has(f.obj, "network"))

\* the confirm handlers of conversation i that have made the submission call
Submitting(i) == {call \in BagToSet(calls) : call.flow = i /\ call.pc = "result"}

\* C1: a submission call is made only for a conversation that has collected
\* all of its fields and shown the confirmation summary; a confirm that
\* arrives in an earlier state makes no submission call.
C1_SubmissionOnlyAfterSummary ==
  \A i \in DOMAIN flows : Submitting(i) # {} => Collected(flows[i])

\* C2: for one completed draft the submission operation is invoked at most
\* once, however two confirm events of the chat interleave.
C2_AtMostOneSubmission ==
  \A i \in DOMAIN flows :
    Collected(flows[i]) =>
      \A call \in Submitting(i) : Submitting(i) = {call} /\ CopiesIn(call, calls) = 1

C4_FailureDiscardsDraft ==
  \A call \in BagToSet(calls) :
    call.pc = "result" =>
      \A outcome \in ApiOutcomes \ {"ok"} :
        LET f == ResultResult(call, outcome).f
        IN ~f.present /\ ConfirmPressed(f, call.flow).calls = <<>>

\* C5: the failure message sent to the chat holds the error message the
\* gateway operation returned for the failure.
C5_FailureMessageIsGatewayError ==
  \A call \in BagToSet(calls) :
    call.pc = "result" =>
      \A outcome \in ApiOutcomes \ {"ok"} :
        LET r == ResultResult(call, outcome)
        IN \A k \in DOMAIN r.out :
             r.out[k].id = "failed" =>
               r.out[k].detail = GatewayError(flows[call.flow].kind, outcome)

\* the conversations a cancel button is about
Cancels(data, kind) ==
  IF data = "cancel_send" THEN kind = "send" ELSE kind \in {"wallet", "bank"}

\* C6: after a cancel button event the chat's conversation is Idle, in
\* whatever state it was: the draft is gone and no step handler of it stays
\* registered.
C6_CancelLeavesIdle ==
  \A c \in Chats :
    \A data \in {"cancel_send", "cancel_withdraw"} \cap ShownTo(c) :
      LET r == ButtonResult(c, data)
      IN \A i \in DOMAIN flows :
           (flows[i].chat = c /\ Cancels(data, flows[i].kind)) =>
             FlowState(r.flows[i]) = "Idle"

\* the conversations of chat c whose step listener would take its next message
Consumers(c) == {i \in DOMAIN flows : flows[i].listener # "none" /\ ForChat(flows[i], c)}

\* C7: at most one conversation step handler is active per chat, so that a
\* text message of the chat is consumed by at most one step.
C7_OneStepHandlerPerChat ==
  \A c \in Chats : Cardinality(Consumers(c)) <= 1

\* C8: when a conversation has ended, every message handler and button
\* handler it registered has been removed.
C8_EndedFlowHoldsNoHandler ==
  \A i \in DOMAIN flows :
    flows[i].submitted => flows[i].listener = "none" /\ ~flows[i].cb

\* C9: no text message and no button event of one chat changes another
\* chat's draft, advances its conversation, or starts a submission for it.
C9_NoCrossTalk ==
  \A b \in Chats :
    LET others == {i \in DOMAIN flows : flows[i].chat # b}
    IN others # {} =>
         /\ \A t \in CrossTexts :
              LET r == MessageResult(b, t)
              IN /\ \A i \in others : r.flows[i] = flows[i]
                 /\ \A k \in DOMAIN r.out : r.out[k].flow \notin others
         /\ \A data \in Buttons :
              LET r == ButtonResult(b, data)
              IN /\ \A i \in others : r.flows[i] = flows[i]
                 /\ \A k \in DOMAIN r.calls : r.calls[k].flow \notin others
                 /\ \A k \in DOMAIN r.out : r.out[k].flow \notin others

\* C9 witness: two chats have conversations in progress at the same time,
\* each with a draft, one waiting for a text and one for its confirm button
C9_Witness ==
  \E i, j \in DOMAIN flows :
    /\ flows[i].chat # flows[j].chat
    /\ flows[i].present /\ flows[i].listener # "none"
    /\ flows[j].present /\ flows[j].listener = "none"
    /\ ConfirmButton(flows[j].kind) \in ShownTo(flows[j].chat)

\* C10: when a login listener takes a message of its chat, the listener
\* that is removed is that listener and no other.
C10_ConsumerRemovesItself ==
  \A c \in Chats :
    LET d == TextDispatch(c)
        taken == {d.taken[k].id : k \in DOMAIN d.taken}
        left == {d.left[k].id : k \in DOMAIN d.left}
    IN {listeners[k].id : k \in DOMAIN listeners} \ left = taken

-----------------------------------------------------------------------------
(* Properties of the login flow *)

\* the listener registered together with timer tm is still registered after
\* listeners ls
Registered(tm, ls) == \E k \in DOMAIN ls : ls[k].id = tm.id

\* C11: when a login step has taken its message before its timer expires,
\* the expiry removes no listener and sends no timeout message.
C11_TimerOfTakenStepIsNoOp ==
  (timers # <<>> /\ Head(timers).taken) =>
    /\ TimeoutResult.listeners = listeners
    /\ TimeoutResult.out = <<>>

\* C12: a code listener stays registered until it takes a message of its
\* chat or its own timer expires; the expiry of an email-step timer removes
\* no code listener.
C12_EmailTimerKeepsCodeListener ==
  (timers # <<>> /\ Head(timers).step = "email") =>
    \A k \in DOMAIN listeners :
      listeners[k].step = "otp" =>
        \E j \in DOMAIN TimeoutResult.listeners :
          TimeoutResult.listeners[j].id = listeners[k].id

\* C13: after the timer of an unfinished login step expires nothing of that
\* login remains: its listener is removed and no sid is kept for the email
\* entered in it.
C13_TimeoutLeavesNoState ==
  (timers # <<>> /\ ~Head(timers).taken) =>
    /\ ~Registered(Head(timers), TimeoutResult.listeners)
    /\ Head(timers).step = "otp" => ~SidHas(TimeoutResult.sessions, Head(timers).email)

C15_InvalidEmailEndsLogin ==
  \A c \in Chats, t \in CrossLoginTexts :
    ~EmailRegexTest(TrimOrEmpty(t)) =>
      LET d == TextDispatch(c)
      IN \A k \in DOMAIN d.taken :
           d.taken[k].step = "email" =>
             /\ Taken(d.taken[k], t).pending = <<>>
             /\ Taken(d.taken[k], t).out
                  = <<Msg(c, d.taken[k].id, "invalidEmailFormat")>>
             /\ ~Registered(d.taken[k], LoginMessageResult(c, t).listeners)

\* the code in the payload of the authenticate request of handler p
SubmittedOtp(p) == LoadingResult(p).out[1].args[2]

\* C16: for every text a code listener accepts, the code submitted to the
\* authenticate request is the text without its white space and has one to
\* six digits; a text that does not match the pattern is not submitted.
C16_SubmittedOtpIsStrippedDigits ==
  \A c \in Chats, t \in LoginTexts :
    LET d == TextDispatch(c)
    IN \A k \in DOMAIN d.taken :
         d.taken[k].step = "otp" =>
           LET ps == Taken(d.taken[k], t).pending
           IN IF OtpRegexTest(TrimOrEmpty(t))
              THEN /\ Len(ps) = 1
                   /\ SubmittedOtp(ps[1]) = StripWhitespace(t)
                   /\ \A j \in DOMAIN SubmittedOtp(ps[1]) : IsDigit(SubmittedOtp(ps[1])[j])
                   /\ Len(SubmittedOtp(ps[1])) \in 1..MaxOtpGroup
              ELSE ps = <<>>

\* C17: when a login reports its success to the chat, the chat has a
\* session with the token of the authenticate request and the
\* organizationId of the profile, a notification subscription exists for
\* the chat, and no sid is kept for the email of the login.
C17_SuccessHasSessionAndSubscription ==
  \A p \in BagToSet(logins) :
    (p.pc = "deleteLoading"
       /\ WelcomeResult(p, TRUE).out = <<Msg(p.chat, 0, "welcome")>>) =>
      /\ session[p.chat] = Token(p.chat)
      /\ organizationId[p.chat] = p.org
      /\ p.chat \in pusherInstances
      /\ ~SidHas(emailOtpSessions, p.email)

-----------------------------------------------------------------------------
(* Properties of the steps of the conversations *)

\* texts an amount listener may be given: "10.5", " 10.50", "0.000001",
\* "0", "-1", "abc", "1.1234567", "a@b.com"
AmountTexts ==
  {T_amount, T_amountPadded, <<"0", ".", "0", "0", "0", "0", "0", "1">>, T_zero,
   <<"-", "1">>, <<"a", "b", "c">>, <<"1", ".", "1", "2", "3", "4", "5", "6", "7">>,
   T_email}

\* the text is an amount: it matches AMOUNT_REGEX and its value is above 0
ValidAmount(t) == AmountRegexTest(Trim(t)) /\ ParseFloat(Trim(t)) > 0

\* C18: in every amount step the conversation stores the amount and moves
\* to its next step if and only if the text is a valid amount; for any
\* other text the chat is asked again and the conversation, its draft and
\* its listener stay as they are.
C18_AmountStepAdvancesIffValid ==
  \A i \in DOMAIN flows, t \in AmountTexts :
    flows[i].listener = "amount" =>
      LET r == OnMessage(flows[i], i, flows[i].chat, t)
      IN IF ValidAmount(t)
         THEN /\ r.f.listener # "amount"
              /\ Has(r.f.obj, "amount")
              /\ r.f.obj.amount = ParseFloat(Trim(t))
         ELSE /\ r.f = flows[i]
              /\ r.out \in {<<Msg(flows[i].chat, i, "invalidAmount")>>,
                            <<Msg(flows[i].chat, i, "amountNotPositive")>>}

\* a text without "@" and of fewer than 32 characters
T_word == <<"a", "b", "c">>

\* texts a recipient or an address listener may be given: no text, "", " ",
\* "abc", "10.5", "Skip", "/send", "a@b.com", and addresses of 31 and of 32
\* characters
StepTexts ==
  {Undefined, <<>>, <<" ">>, T_word, T_amount, T_skip, T_send, T_email,
   [i \in 1..(MinAddressLength - 1) |-> "x"], T_address}

\* what a message with text t of its chat does to conversation i, and what
\* conversation i sends for it
AfterText(i, t) ==
  LET r == MessageResult(flows[i].chat, t)
  IN [f |-> r.flows[i],
      out |-> SelectSeq(r.out, LAMBDA e : e.flow = i)]

\* C19: a recipient text that is empty or has no "@", and an address text
\* of fewer than 32 characters, is answered with the request to enter a
\* valid one: the conversation stays in its step with the same listener,
\* and no draft is created or changed.
C19_RejectedTextKeepsStep ==
  \A i \in DOMAIN flows, t \in StepTexts :
    /\ (flows[i].listener = "email" /\ (Falsy(t) \/ ~Contains(t, <<"@">>))) =>
         /\ AfterText(i, t).f = flows[i]
         /\ AfterText(i, t).out = <<Msg(flows[i].chat, i, "invalidEmail")>>
    /\ (flows[i].listener = "address" /\ (Falsy(t) \/ Len(t) < MinAddressLength)) =>
         /\ AfterText(i, t).f = flows[i]
         /\ AfterText(i, t).out = <<Msg(flows[i].chat, i, "invalidAddress")>>

\* C19 witness: one conversation waits for its recipient and one for its
\* wallet address, neither has a draft, and a text without "@" of fewer
\* than 32 characters leaves both as they are
C19_Witness ==
  \E i, j \in DOMAIN flows :
    /\ flows[i].listener = "email" /\ ~flows[i].present
    /\ flows[j].listener = "address" /\ ~flows[j].present
    /\ AfterText(i, T_word).f = flows[i]
    /\ AfterText(j, T_word).f = flows[j]

\* texts of the three steps of a send conversation: "a@b.com"; "10.5",
\* "10.50", "0.000001"; "skip", "Skip", "SKIP"
Recipients == {T_email}
Amounts == {T_amount, <<"1", "0", ".", "5", "0">>,
            <<"0", ".", "0", "0", "0", "0", "0", "1">>}
Skips == {<<"s", "k", "i", "p">>, T_skip, <<"S", "K", "I", "P">>}

\* conversation f after its recipient, amount and description listeners
\* were given r, a and s in turn, with what the last of them sent
Drafted(f, i, r, a, s) ==
  DescriptionListener(SendAmountListener(EmailListener(f, i, r).f, i, a).f, i, s)

\* a send conversation that waits for its recipient
AwaitsRecipient(f) == f.kind = "send" /\ f.listener = "email"

\* the draft has no description and its summary has the recipient and the
\* amount only
NoDescription(r) ==
  /\ r.f.obj.description = <<>>
  /\ Len(r.out) = 1
  /\ r.out[1].id = "sendSummary"
  /\ r.out[1].args = <<r.f.obj.recipient, NumToString(r.f.obj.amount)>>
  /\ SubmitArgs(r.f)[3] = <<>>

-----------------------------------------------------------------------------
(* Properties of the order of the steps *)

\* the place of a send conversation in AwaitingRecipient, AwaitingAmount,
\* AwaitingDescription, AwaitingConfirmation, read off its listener
Rank(f) ==
  CASE f.listener = "email" -> 1
    [] f.listener = "amount" -> 2
    [] f.listener = "description" -> 3
    [] OTHER -> 4

\* the text is a valid input of the step send conversation f is in
ValidInput(f, t) ==
  CASE f.listener = "email" -> ~Falsy(Trim(t)) /\ Contains(t, <<"@">>)
    [] f.listener = "amount" -> t # Undefined /\ ValidAmount(t)
    [] f.listener = "description" -> TRUE
    [] OTHER -> FALSE

-----------------------------------------------------------------------------
(* Properties of the wallet withdrawal *)

\* the networks of the two network buttons
Networks == {NetworkOf("network_solana"), NetworkOf("network_ethereum")}

\* a wallet withdrawal that waits for its network button
AwaitsNetwork(f) ==
  f.kind = "wallet" /\ f.listener = "none" /\ f.present /\ ~Has(f.obj, "network")

\* the gateway calls the confirm handler `call` makes when its token
\* lookup returns
CallsMade(call) ==
  SelectSeq(TokenResult(call).out, LAMBDA e : e.kind = "api")

\* C22: in the wallet withdrawal the network is set by a network button
\* only: a text received while the network is awaited changes neither the
\* draft nor the step, and every withdrawToWallet call is made with the
\* network of one of the two buttons.
C22_NetworkOnlyFromButtons ==
  /\ \A i \in DOMAIN flows, t \in StepTexts :
       AwaitsNetwork(flows[i]) => AfterText(i, t).f = flows[i]
  /\ \A i \in DOMAIN flows :
       (flows[i].kind = "wallet" /\ Has(flows[i].obj, "network")) =>
         flows[i].obj.network \in Networks
  /\ \A call \in BagToSet(calls) :
       (call.pc = "token" /\ flows[call.flow].kind = "wallet") =>
         \A k \in DOMAIN CallsMade(call) : CallsMade(call)[k].args[3] \in Networks

-----------------------------------------------------------------------------
(* Properties of the confirm handlers *)

\* the step makes a gateway call
MakesCall(r) == \E k \in DOMAIN r.out : r.out[k].kind = "api"

\* the step ends the handler with this message to the chat and no call
EndsWith(r, call, id) ==
  /\ r.cont = <<>>
  /\ ~MakesCall(r)
  /\ \E k \in DOMAIN r.out :
       /\ r.out[k].kind = "msg" /\ r.out[k].id = id
       /\ r.out[k].to = flows[call.flow].chat

\* C23: on a send confirm the submission call is made only after the
\* session token was found and then the default wallet was resolved; when
\* the token is missing, or the wallet lookup fails or returns nothing, no
\* submission call is made and the chat is told of the failure.
C23_SendSubmitsAfterTokenAndWallet ==
  /\ [](\A call \in BagToSet(calls) :
          flows[call.flow].kind = "send" =>
            /\ call.pc = "token" =>
                 /\ ~MakesCall(TokenResult(call))
                 /\ IF session[flows[call.flow].chat] = NoSession
                    THEN EndsWith(TokenResult(call), call, "authError")
                    ELSE /\ Len(TokenResult(call).cont) = 1
                         /\ TokenResult(call).cont[1].pc = "wallet"
                         /\ TokenResult(call).cont[1].token
                              = session[flows[call.flow].chat]
            /\ call.pc = "wallet" =>
                 \A outcome \in WalletOutcomes :
                   IF outcome = "wallet" /\ session[flows[call.flow].chat] # NoSession
                   THEN MakesCall(WalletResult(call, outcome)) =>
                          /\ call.token # NoSession
                          /\ WalletResult(call, outcome).cont
                               = <<[call EXCEPT !.pc = "result"]>>
                   ELSE EndsWith(WalletResult(call, outcome), call, "noDefaultWallet"))
  /\ [][\A made \in BagToSet(calls') :
          (made.pc = "result" /\ flows[made.flow].kind = "send"
             /\ CopiesIn(made, calls') > CopiesIn(made, calls)) =>
            CopiesIn([made EXCEPT !.pc = "wallet"], calls)
              > CopiesIn([made EXCEPT !.pc = "wallet"], calls')]_vars

\* C23 witness: the send operation has been called by a confirm handler
\* that holds the token of the chat's session
C23_Witness ==
  \E call \in BagToSet(calls) :
    /\ call.pc = "result"
    /\ flows[call.flow].kind = "send"
    /\ call.token = Token(flows[call.flow].chat)

\* the exceptions that leave a handler
Escaping(out) == SelectSeq(out, LAMBDA e : e.kind = "throw")

\* C24: no exception leaves a handler, whatever messages and button
\* events arrive: neither a text message nor a button event of a chat
\* makes a listener throw, in particular not an amount message or a
\* network button that arrives when the draft is absent.
C24_NoExceptionEscapes ==
  \A c \in Chats :
    /\ \A t \in Texts : Escaping(MessageResult(c, t).out) = <<>>
    /\ \A data \in ShownTo(c) : Escaping(ButtonResult(c, data).out) = <<>>

-----------------------------------------------------------------------------
(* Properties of the commands *)

\* C25: every command that needs a session (/profile, /balance, /wallets,
\* /setdefaultwallet, /send, /withdraw, /history, /logout) answers a chat
\* without a session with the request to log in and nothing else: it
\* starts no conversation and makes no remote call.
C25_CommandsAskForLogin ==
  \A c \in Chats, cmd \in SessionCommands :
    session[c] = NoSession =>
      /\ SessionCommand(c, cmd).start = <<>>
      /\ SessionCommand(c, cmd).out \in {<<Msg(c, 0, "loginFirst")>>,
                                          <<Msg(c, 0, "notLoggedIn")>>}

\* the conversations a press of `data` by chat c starts
Started(c, data) ==
  LET r == ButtonResult(c, data)
  IN SubSeq(r.flows, Len(flows) + 1, Len(r.flows))

\* C26: for a chat with a session that was sent the withdrawal menu, a
\* press of withdraw_wallet starts exactly one wallet withdrawal of that
\* chat and a press of withdraw_bank exactly one bank withdrawal, whatever
\* the chat did before.
C26_MenuButtonStartsOneFlow ==
  \A c \in Chats :
    (session[c] # NoSession /\ c \in menus) =>
      /\ Started(c, "withdraw_wallet") = <<NewFlow("wallet", c)>>
      /\ Started(c, "withdraw_bank") = <<NewFlow("bank", c)>>

-----------------------------------------------------------------------------
(* Properties of the notification service *)

\* C27: initializePusher for a chat that has an instance makes no client
\* and no channel, and however the initializePusher calls of one chat
\* interleave, the chat has at most one client and at most one channel.
C27_OneClientPerChat ==
  /\ \A p \in BagToSet(logins), made \in BOOLEAN :
       (p.pc = "pusher" /\ p.chat \in pusherInstances) =>
         /\ InitializePusher(p, made).clients = pusherClients
         /\ InitializePusher(p, made).next = <<At(p, "deleteLoading")>>
  /\ \A c \in Chats :
       /\ Cardinality(ClientsOf(pusherClients, c)) <= 1
       /\ Cardinality({cl \in ClientsOf(pusherClients, c) : cl.channel}) <= 1

C29_CleanupIsIdempotent ==
  /\ \A c \in Chats :
       LET once == CleanupPusher(pusherClients, pusherInstances, c)
           twice == CleanupPusher(once.clients, once.instances, c)
       IN /\ twice = once
          /\ c \notin once.instances
          /\ MapGet(once.clients, c) = {}
          /\ \A id \in MapGet(pusherClients, c) : id \notin {cl.id : cl \in once.clients}
          /\ {cl \in once.clients : cl.chat # c} = {cl \in pusherClients : cl.chat # c}
  /\ \A p \in BagToSet(logins) :
       p.pc = "cleanup" =>
         LET r == Disconnect(pusherClients, pusherInstances, p.chat, p.client)
         IN /\ p.chat \notin r.instances
            /\ p.client \notin {cl.id : cl \in r.clients}

\* cleanupPusher resumes for a chat whose session is gone and whose client
\* is still connected
C29_Witness ==
  \E p \in BagToSet(logins) :
    /\ p.pc = "cleanup"
    /\ session[p.chat] = NoSession
    /\ p.client \in MapGet(pusherClients, p.chat)

\* the chat has a notification subscription: an entry of the map, or a
\* connected client with a channel
Subscribed(c) ==
  c \in pusherInstances \/ \E cl \in ClientsOf(pusherClients, c) : cl.channel

\* C30: when /logout of a chat with a session comes to delete the session,
\* the subscription of the chat is already released, and when it reports
\* its success the chat has neither a session nor a subscription; /logout
\* of a chat without a session changes neither.
C30_LogoutLeavesNothing ==
  /\ [](\A p \in BagToSet(logins) :
          p.pc = "clear" =>
            /\ ~Subscribed(p.chat)
            /\ ClearResult(p, TRUE).session[p.chat] = NoSession
            /\ ClearResult(p, TRUE).out = <<Msg(p.chat, 0, "loggedOut")>>)
  /\ [][\A p \in BagToSet(logins) :
          (p.pc = "logoutAuth" /\ ~IsAuthenticated(p.chat) /\ LogoutAuthChecked(p)) =>
            UNCHANGED <<session, organizationId, pusherInstances, pusherClients, redis, authCall,
                 defaultWalletStates, callbackHandlers, selections>>]_vars

-----------------------------------------------------------------------------
(* Properties of the session store *)

\* the keys of the two stores other than the key of userId are equal
SameElsewhere(a, b, userId) ==
  \A k \in RedisKeys \ {SessionKey(userId)} : a[k] = b[k]

\* C31: a session write puts the token under user_session:<id> with the
\* time-to-live given, 86400 seconds when none is given; updateSessionExpiry
\* changes the time-to-live of the key and nothing else, and for a user
\* without a session it creates nothing and answers false.
C31_WriteSetsTtlExpiryKeepsValue ==
  \A c \in Chats, expiry \in Expiries :
    /\ \A token \in SessionValues :
         LET w == StoreUserSession(redis, c, token, expiry, TRUE)
         IN /\ w.store[SessionKey(c)] =
                 <<[value |-> token,
                    ttl |-> IF expiry = <<>> THEN 86400 ELSE expiry[1]]>>
            /\ SameElsewhere(w.store, redis, c)
            /\ ~w.thrown
    /\ \A up \in BOOLEAN :
         LET u == UpdateSessionExpiry(redis, c, expiry, up)
         IN /\ SameElsewhere(u.store, redis, c)
            /\ IF redis[SessionKey(c)] = <<>>
               THEN u.store = redis /\ ~u.result
               ELSE /\ u.store[SessionKey(c)] # <<>>
                    /\ u.store[SessionKey(c)][1].value = redis[SessionKey(c)][1].value
                    /\ up => /\ u.result
                             /\ u.store[SessionKey(c)][1].ttl =
                                  (IF expiry = <<>> THEN 86400 ELSE expiry[1])

\* one user has a session whose time-to-live is not the default, the other
\* has none
C31_Witness ==
  \E c, d \in Chats :
    /\ redis[SessionKey(c)] # <<>>
    /\ redis[SessionKey(c)][1].ttl # DefaultExpiry
    /\ redis[SessionKey(d)] = <<>>

-----------------------------------------------------------------------------
(* Properties of authenticateWithOTP *)

\* the message holds the JSON text of an object or "[object Object]"
RawObject(message) ==
  \E k \in DOMAIN message : message[k] \in {"{", "[object Object]"}

\* the status codes that have a phrase of their own
PhraseStatuses == {400, 401, 403, 404, 500, 502, 503, 504}

\* C32: whatever the shape of the error body, the message of the error of
\* authenticateWithOTP holds no serialization of an object, and for a body
\* without a message it is the phrase of the status code.
C32_NoRawObjectInMessage ==
  \A call \in {authCall[k] : k \in DOMAIN authCall} :
    call.answer.status # 200 =>
      /\ call.result.kind = "thrown"
      /\ ~RawObject(call.result.message)
      /\ (~Truthy(call.answer.data.message) /\ ~Truthy(call.answer.data.error)
            /\ call.answer.status \in PhraseStatuses) =>
           call.result.message = <<StatusMessage(call.answer.status)>>

\* the constraints of a validation error object, separated by ", "
Commas(constraints) ==
  [k \in 1..(2 * Len(constraints) - 1) |->
     IF k % 2 = 1 THEN constraints[(k + 1) \div 2] ELSE ", "]

\* the children of an entry that have constraints, in their order
RECURSIVE Constrained(_)
Constrained(children) ==
  IF children = <<>> THEN <<>>
  ELSE IF Head(children).constraints # <<>>
  THEN <<Head(children)>> \o Constrained(Tail(children))
  ELSE Constrained(Tail(children))

\* "property: constraint" of an entry, or "parent.child: constraint" of
\* its children one level down, separated by "; "
RECURSIVE Fragments(_, _)
Fragments(prefix, entries) ==
  IF entries = <<>> THEN <<>>
  ELSE (IF Head(entries).constraints # <<>>
        THEN prefix \o <<Head(entries).property, ": ">>
               \o Commas(Head(entries).constraints[1])
        ELSE IF prefix = <<>> /\ Constrained(Head(entries).children[1]) # <<>>
        THEN Fragments(<<Head(entries).property, ".">>,
                       Constrained(Head(entries).children[1]))
        ELSE <<"Invalid ", Head(entries).property>>)
       \o (IF Len(entries) = 1 THEN <<>> ELSE <<"; ">> \o Fragments(prefix, Tail(entries)))

\* every entry of the message is an object with a property and with
\* constraints or children
IsValidationArray(message) ==
  /\ message.kind = "array"
  /\ message.items # <<>>
  /\ \A k \in DOMAIN message.items :
       /\ message.items[k].kind = "error"
       /\ message.items[k].property # ""
       /\ message.items[k].constraints # <<>> \/ message.items[k].children # <<>>

C34_AnswerIsAdapted ==
  \A call \in {authCall[k] : k \in DOMAIN authCall} :
    call.answer.status = 200 =>
      LET data == call.answer.data
          result == call.result
      IN IF data.token = "" /\ data.accessToken = ""
         THEN result.kind = "thrown" /\ result.tokens = <<>>
         ELSE /\ result.kind = "returned"
              /\ Len(result.tokens) = 1
              /\ result.tokens[1].token \in {data.token, data.accessToken} \ {""}
              /\ data.token # "" => result.tokens[1].token = data.token
              /\ data.expiresIn # 0 => result.tokens[1].expiresIn = data.expiresIn
              /\ (data.expiresIn = 0 /\ data.expireAt # <<>>) =>
                   /\ result.tokens[1].expiresIn * 1000 <= data.expireAt[1] - call.now
                   /\ data.expireAt[1] - call.now < result.tokens[1].expiresIn * 1000 + 1000
              /\ data.organizationId # "" =>
                   result.tokens[1].organizationId = data.organizationId
              /\ (data.organizationId = "" /\ data.user # <<>>) =>
                   result.tokens[1].organizationId = data.user[1]
              /\ (data.organizationId = "" /\ data.user = <<>>) =>
                   result.tokens[1].organizationId = ""

\* an answer with accessToken, expireAt and a user object only
C34_Witness ==
  \E k \in DOMAIN authCall :
    /\ authCall[k].answer.status = 200
    /\ authCall[k].answer.data.token = ""
    /\ authCall[k].answer.data.expiresIn = 0
    /\ authCall[k].answer.data.organizationId = ""
    /\ authCall[k].now = 5999
    /\ authCall[k].result = Returned(AuthToken("tok2", "rt1", 3, "org2"))

-----------------------------------------------------------------------------
(* Properties of the login and of the notification service together *)

\* what the login p may send at its next step, over the outcomes of the
\* request it waits for
NextReports(p) ==
  CASE p.pc = "authenticate" -> {AuthenticateResult(p, o).out : o \in AuthOutcomes}
    [] p.pc = "profile" -> {ProfileResult(p, o).out : o \in ProfileOutcomes}
    [] p.pc = "deleteLoading" -> {WelcomeResult(p, d).out : d \in BOOLEAN}
    [] OTHER -> {}

\* C35: whenever a login tells its chat that the authentication failed and
\* to try /login again, the chat has no session, so that its next /login is
\* not answered with "already logged in".
C35_FailedLoginLeavesNoSession ==
  \A p \in BagToSet(logins) :
    <<Msg(p.chat, 0, "authenticationFailed")>> \in NextReports(p) =>
      /\ session[p.chat] = NoSession
      /\ LoginAuthResult(Pending(p.chat, "auth", <<>>, <<>>, "")).out
           # <<Msg(p.chat, 0, "alreadyLoggedIn")>>

\* C36: a chat that has an entry in the map of the notification service has
\* a session, and no deposit is forwarded to a chat without a session.
C36_SubscriptionHasSession ==
  /\ \A c \in pusherInstances : session[c] # NoSession
  /\ \A cl \in pusherClients : Deposit(cl) # <<>> => session[cl.chat] # NoSession

\* C37: when the only login in progress reports its success, every channel
\* the chat is subscribed to is the channel of the organizationId of its
\* session, also when an earlier session of the chat had another
\* organizationId.
C37_ChannelOfCurrentOrganization ==
  \A p \in BagToSet(logins) :
    (p.pc = "deleteLoading" /\ session[p.chat] # NoSession
       /\ BagCardinality(logins) = 1
       /\ WelcomeResult(p, TRUE).out = <<Msg(p.chat, 0, "welcome")>>) =>
      \A cl \in ClientsOf(pusherClients, p.chat) :
        cl.channel => cl.channelName = organizationId[p.chat]


\* C38: the sid a login posts with its code is the sid that the OTP request
\* of that login was answered with.
C38_SidOfOwnRequest ==
  \A p \in BagToSet(logins) :
    p.pc = "loading" => SidGet(emailOtpSessions, p.email) = <<Sid(p.chat)>>


-----------------------------------------------------------------------------
(* Properties of the selection of the default wallet *)

\* the set-default calls that the runs of event e have posted
SetDefaultCalls(e) ==
  BagCardinality([r \in {x \in BagToSet(selections) : x.event = e /\ x.called} |->
                    CopiesIn(r, selections)])

\* C39: one default_wallet:<id> event of a chat posts at most one set-default
\* call, and when the wallet was set no handler of the chat would run on a
\* further event.
C39_OneCallPerButton ==
  /\ [](\A e \in Events : SetDefaultCalls(e) <= 1)
  /\ [][\A r \in BagToSet(selections) :
          DefaultWalletAnswered(r, TRUE) =>
            WalletHandlersEntered(defaultWalletStates', callbackHandlers', r.chat) = 0]_vars


-----------------------------------------------------------------------------
(* Properties of refreshToken *)

\* what the claim allows after a call: the session of the returned token,
\* with the organizationId of the answer or else the one it had, when the
\* call returned, and no session when it threw
RefreshedOrEnded(call) ==
  IF call.thrown THEN call.after = <<>>
  ELSE /\ call.after # <<>>
       /\ call.after[1].value.token = call.answer.token
       /\ call.answer.token # ""
       /\ call.after[1].value.organizationId =
            IF call.answer.organizationId = <<>>
            THEN call.before[1].value.organizationId
            ELSE call.answer.organizationId[1]

=============================================================================
